---- MODULE Spec2Model ----
(***************************************************************************)
(* A model of the YaSwag annotation parser (package parser) and of the     *)
(* document assembly it feeds.  Comment text is a sequence of lines, a     *)
(* line a sequence of one-character strings; every regular expression of   *)
(* NewAnnotationParser is written out item by item and matched the way     *)
(* Go's regexp package matches it.                                          *)
(***************************************************************************)
EXTENDS Integers, Sequences, FiniteSets, TLC

VARIABLES
    written,      \* the directives of the comment block as their author wrote them
    text,         \* Parse: strings.Split(text, "\n"), one entry per line
    pc,           \* Parse: "loop" while ranging over the lines, "done" after return
    pos,          \* Parse: index of the next line of the range loop
    annotations,  \* Parse: the annotations appended so far
    blocks,       \* Assemble: the operation blocks, in declaration order
    bpos,         \* Assemble: index of the next block
    paths,        \* Document.Paths: path -> method -> operationId ("" = nil slot)
    diagnostics,  \* Assemble: the Diagnostics reported so far
    hpc,          \* yahttp: which call is under way and how far it has got
    middlewares,  \* Chain: the middlewares argument
    handler,      \* Chain: the variable final, outermost layer first
    ci,           \* Chain: the index i of the loop
    depth,        \* ServeHTTP: the layer of handler the request has reached
    order,        \* the handlers one request has run, in order
    spec,         \* the *openapi.Document a Plugin or middleware was built with
    options,      \* the Options handed to New / the CORSOptions handed to CORS
    req,          \* the *http.Request
    resp,         \* the http.ResponseWriter: status code and header
    plugin,       \* the *Plugin New returned
    mux,          \* the *http.ServeMux: the patterns registered and their handlers
    apc,          \* Audit: "analyze", "check" or "done"
    doc,          \* Audit: the *openapi.Document
    visited,      \* Audit: the paths the running range over doc.Paths has been through
    result,       \* Audit: the counters of the *AuditResult
    findings,     \* UnprotectedWriteRule.Check: the findings so far
    document,     \* swaggerui: the document the bytes were written from
    data,         \* swaggerui: the bytes, patched calls times
    previous,     \* swaggerui: the bytes before the last call
    calls,        \* swaggerui: the calls of patchOpenAPI32To31 so far
    server,       \* swaggerui: the fields of the *Server or *EditorServer
    err,          \* swaggerui: the error the last SetSpecFrom... call returned, "" for none
    chosen,       \* swaggerui: the source named by the most recent call that succeeded
    served,       \* swaggerui: the answer of the spec endpoint to the last request
    ncalls        \* swaggerui: the SetSpecFrom... calls made so far

lexerVars == <<written, text, pc, pos, annotations>>
assemblerVars == <<blocks, bpos, paths, diagnostics>>
httpVars == <<hpc, middlewares, handler, ci, depth, order, spec, options, req, resp,
               plugin, mux>>
auditVars == <<apc, doc, visited, result, findings>>
uiVars == <<document, data, previous, calls, server, err, chosen, served, ncalls>>

vars == <<lexerVars, assemblerVars, httpVars, auditVars, uiVars>>

-----------------------------------------------------------------------------
(* Characters and the character classes of Go's regexp syntax.             *)

QUOTE == "\""
APOS == "'"
SP == " "
TAB == "\t"

Lower == {"a","b","c","d","e","f","g","h","i","j","k","l","m",
          "n","o","p","q","r","s","t","u","v","w","x","y","z"}
Upper == {"A","B","C","D","E","F","G","H","I","J","K","L","M",
          "N","O","P","Q","R","S","T","U","V","W","X","Y","Z"}
Digit == {"0","1","2","3","4","5","6","7","8","9"}
Punct == {"!", "#", "-", ">", "<", "(", ")", "[", "]", "/", ":", ".", "=",
          "?", "_", "@", ",", QUOTE, APOS}

\* \s and unicode.IsSpace restricted to the characters that occur in a line
Space == {SP, TAB}
Char == Lower \cup Upper \cup Digit \cup Punct \cup Space

Word == Lower \cup Upper \cup Digit \cup {"_"}       \* \w
WordDash == Word \cup {"-"}                           \* [\w-]
WordColon == Word \cup {":"}                          \* [\w:]
DigitDot == Digit \cup {"."}                          \* [\d.]
NonSpace == Char \ Space                              \* \S
NotQuote == Char \ {QUOTE}                            \* [^"]
NotGt == Char \ {">"}                                 \* [^>]
NotParen == Char \ {")"}                              \* [^)]

-----------------------------------------------------------------------------
(* Regular expressions.  An expression is a sequence of items, written in  *)
(* the order of the source text of the expression; Match follows Go's      *)
(* leftmost-first preference: a repetition takes as much as it can and     *)
(* gives characters back one at a time, an optional group is tried before  *)
(* it is skipped, alternatives are tried from left to right.               *)

Item == [op |-> "", lit |-> <<>>, cls |-> {}, min |-> 0, k |-> 0, sub |-> <<>>, alts |-> <<>>]

Bol == [Item EXCEPT !.op = "bol"]                                \* ^
Lit(lit) == [Item EXCEPT !.op = "lit", !.lit = lit]              \* literal text
Star(C) == [Item EXCEPT !.op = "rep", !.cls = C]                 \* C*
Plus(C) == [Item EXCEPT !.op = "rep", !.cls = C, !.min = 1]      \* C+
Opt(sub) == [Item EXCEPT !.op = "opt", !.sub = sub]              \* (?:sub)?
Grp(k, sub) == [Item EXCEPT !.op = "grp", !.k = k, !.sub = sub]  \* (sub), the k-th group
Alt(alts) == [Item EXCEPT !.op = "alt", !.alts = alts]           \* a1|a2|...

\* w1|w2|... for literal words
Words(ws) == Alt([n \in 1..Len(ws) |-> <<Lit(ws[n])>>])

\* (?:\s+"([^"]*)")? with the quoted text as the k-th group
OptQuoted(k) == Opt(<<Plus(Space), Lit(<<QUOTE>>), Grp(k, <<Star(NotQuote)>>), Lit(<<QUOTE>>)>>)

\* \s*(?:"([^"]*)")? with the quoted text as the k-th group
SpacesOptQuoted(k) ==
    <<Star(Space), Opt(<<Lit(<<QUOTE>>), Grp(k, <<Star(NotQuote)>>), Lit(<<QUOTE>>)>>)>>

RECURSIVE NumSubexp(_)
\* Regexp.NumSubexp: the number of groups of an expression
NumSubexp(items) ==
    IF items = <<>> THEN 0
    ELSE NumSubexp(Tail(items))
         + (CASE Head(items).op = "grp" -> 1 + NumSubexp(Head(items).sub)
              [] Head(items).op = "opt" -> NumSubexp(Head(items).sub)
              [] Head(items).op = "alt" ->
                    NumSubexp([n \in 1..Len(Head(items).alts) |-> Opt(Head(items).alts[n])])
              [] OTHER -> 0)

\* s has lit at position i
HasAt(s, i, lit) ==
    i + Len(lit) - 1 <= Len(s) /\ SubSeq(s, i, i + Len(lit) - 1) = lit

RECURSIVE Extent(_, _, _)
\* the position after the longest run of characters of C that starts at i
Extent(s, i, C) ==
    IF i <= Len(s) /\ s[i] \in C THEN Extent(s, i + 1, C) ELSE i

\* the result of a failed match
Fail == [ok |-> FALSE, end |-> 0, caps |-> <<>>]

RECURSIVE Match(_, _, _, _), Backoff(_, _, _, _, _), FirstAlt(_, _, _, _, _)
\* items matched at position i of s; st holds the groups closed so far (caps)
\* and where the open ones started (start)
Match(items, s, i, st) ==
    IF items = <<>> THEN [ok |-> TRUE, end |-> i, caps |-> st.caps]
    ELSE CASE Head(items).op = "bol" ->
                IF i = 1 THEN Match(Tail(items), s, i, st) ELSE Fail
           [] Head(items).op = "mbol" ->
                IF i = 1 \/ s[i - 1] = "\n" THEN Match(Tail(items), s, i, st) ELSE Fail
           [] Head(items).op = "lit" ->
                IF HasAt(s, i, Head(items).lit)
                THEN Match(Tail(items), s, i + Len(Head(items).lit), st)
                ELSE Fail
           [] Head(items).op = "rep" ->
                Backoff(Tail(items), s, Extent(s, i, Head(items).cls), i + Head(items).min, st)
           [] Head(items).op = "opt" ->
                LET taken == Match(Head(items).sub \o Tail(items), s, i, st)
                IN IF taken.ok THEN taken ELSE Match(Tail(items), s, i, st)
           [] Head(items).op = "alt" ->
                FirstAlt(Head(items).alts, Tail(items), s, i, st)
           [] Head(items).op = "grp" ->
                Match(<<[Item EXCEPT !.op = "open", !.k = Head(items).k]>> \o Head(items).sub
                          \o <<[Item EXCEPT !.op = "close", !.k = Head(items).k]>>
                          \o Tail(items),
                      s, i, st)
           [] Head(items).op = "open" ->
                Match(Tail(items), s, i, [st EXCEPT !.start[Head(items).k] = i])
           [] Head(items).op = "close" ->
                Match(Tail(items), s, i,
                      [st EXCEPT !.caps[Head(items).k] =
                                    SubSeq(s, st.start[Head(items).k], i - 1)])

\* the repetition ends at j, or earlier (not before min), so that the rest matches
Backoff(rest, s, j, min, st) ==
    IF j < min THEN Fail
    ELSE LET r == Match(rest, s, j, st)
         IN IF r.ok THEN r ELSE Backoff(rest, s, j - 1, min, st)

\* the first alternative after which the rest matches
FirstAlt(alts, rest, s, i, st) ==
    IF alts = <<>> THEN Fail
    ELSE LET r == Match(Head(alts) \o rest, s, i, st)
         IN IF r.ok THEN r ELSE FirstAlt(Tail(alts), rest, s, i, st)

RECURSIVE Find(_, _, _)
\* the leftmost match of re in s that starts at i or later
Find(re, s, i) ==
    IF i > Len(s) + 1 THEN Fail @@ [from |-> 0]
    ELSE LET r == Match(re, s, i, [start |-> [k \in 1..NumSubexp(re) |-> 0],
                                   caps |-> [k \in 1..NumSubexp(re) |-> <<>>]])
         IN IF r.ok THEN r @@ [from |-> i] ELSE Find(re, s, i + 1)

\* FindStringSubmatch found nothing
NoMatch == <<>>

\* re.FindStringSubmatch(s): match[0] is the matched text, then the groups,
\* "" for a group that took no part in the match
FindStringSubmatch(re, s) ==
    LET r == Find(re, s, 1)
    IN IF r.ok THEN <<SubSeq(s, r.from, r.end - 1)>> \o r.caps ELSE NoMatch

RECURSIVE FindAllFrom(_, _, _)
\* the matches of re in s from position i on, left to right, not overlapping
FindAllFrom(re, s, i) ==
    LET r == Find(re, s, i)
    IN IF ~r.ok THEN <<>>
       ELSE <<<<SubSeq(s, r.from, r.end - 1)>> \o r.caps>>
                \o FindAllFrom(re, s, IF r.end > r.from THEN r.end ELSE r.from + 1)

\* re.FindAllStringSubmatch(s, -1)
FindAllStringSubmatch(re, s) == FindAllFrom(re, s, 1)

-----------------------------------------------------------------------------
(* strings helpers                                                          *)

RECURSIVE TrimLeft(_, _)
TrimLeft(s, C) == IF s # <<>> /\ Head(s) \in C THEN TrimLeft(Tail(s), C) ELSE s

RECURSIVE TrimRight(_, _)
TrimRight(s, C) ==
    IF s # <<>> /\ s[Len(s)] \in C THEN TrimRight(SubSeq(s, 1, Len(s) - 1), C) ELSE s

\* strings.Trim(s, cutset)
Trim(s, C) == TrimRight(TrimLeft(s, C), C)

\* strings.TrimSpace(s)
TrimSpace(s) == Trim(s, Space)

\* strings.HasPrefix(s, prefix)
HasPrefix(s, prefix) == HasAt(s, 1, prefix)

\* strings.Contains(s, substr)
Contains(s, substr) == \E i \in 1..Len(s) : HasAt(s, i, substr)

\* strings.HasSuffix(s, suffix)
HasSuffix(s, suffix) == Len(s) >= Len(suffix) /\ HasAt(s, Len(s) - Len(suffix) + 1, suffix)

-----------------------------------------------------------------------------
(* The literals of the patterns.                                            *)

\* the keyword each anchored pattern starts with, the alternatives of the
\* patterns and the other string literals of the parse functions
K ==
    [api |-> <<"!","a","p","i">>,
     info |-> <<"!","i","n","f","o">>,
     contact |-> <<"!","c","o","n","t","a","c","t">>,
     license |-> <<"!","l","i","c","e","n","s","e">>,
     server |-> <<"!","s","e","r","v","e","r">>,
     tag |-> <<"!","t","a","g">>,
     tos |-> <<"!","t","o","s">>,
     security |-> <<"!","s","e","c","u","r","i","t","y">>,
     scope |-> <<"!","s","c","o","p","e">>,
     externalDocs |-> <<"!","e","x","t","e","r","n","a","l","D","o","c","s">>,
     link |-> <<"!","l","i","n","k">>,
     webhook |-> <<"!","w","e","b","h","o","o","k">>,
     webhook_body |-> <<"!","w","e","b","h","o","o","k","-","b","o","d","y">>,
     webhook_response |-> <<"!","w","e","b","h","o","o","k","-","r","e","s","p","o","n","s","e">>,
     body |-> <<"!","b","o","d","y">>,
     secure |-> <<"!","s","e","c","u","r","e">>,
     model |-> <<"!","m","o","d","e","l">>,
     field |-> <<"!","f","i","e","l","d">>,
     bang |-> <<"!">>,
     arrow |-> <<"-",">">>,
     methods |-> <<<<"G","E","T">>, <<"P","O","S","T">>, <<"P","U","T">>, <<"D","E","L","E","T","E">>, <<"P","A","T","C","H">>, <<"O","P","T","I","O","N","S">>, <<"H","E","A","D">>>>,
     params |-> <<<<"q","u","e","r","y">>, <<"p","a","t","h">>, <<"h","e","a","d","e","r">>, <<"c","o","o","k","i","e">>>>,
     responses |-> <<<<"o","k">>, <<"e","r","r","o","r">>>>,
     schemes |-> <<<<"a","p","i","K","e","y">>, <<"o","a","u","t","h","2">>, <<"h","t","t","p">>, <<"o","p","e","n","I","d","C","o","n","n","e","c","t">>>>,
     webhookMethods |-> <<<<"g","e","t">>, <<"p","o","s","t">>, <<"p","u","t">>, <<"d","e","l","e","t","e">>, <<"p","a","t","c","h">>>>,
     required |-> <<" ","r","e","q","u","i","r","e","d">>,
     default |-> <<"d","e","f","a","u","l","t","=">>,
     example |-> <<"e","x","a","m","p","l","e","=">>,
     status200 |-> <<"2","0","0">>,
     status500 |-> <<"5","0","0">>,
     ok |-> <<"o","k">>,
     error |-> <<"e","r","r","o","r">>,
     path |-> <<"p","a","t","h">>,
     header |-> <<"h","e","a","d","e","r">>]

\* argTrue = "true"
argTrue == <<"t","r","u","e">>

-----------------------------------------------------------------------------
(* The patterns of NewAnnotationParser, item by item; those of the simple   *)
(* directives are in the matchers table of parseSimplePatterns.  G(m, k)   *)
(* reads match[k] of a FindStringSubmatch result m.                         *)

G(m, k) == m[k + 1]

\* ^!webhook\s+(\w+):(get|post|put|delete|patch)\s*(?:"([^"]*)")?
webhookPattern ==
    <<Bol, Lit(K.webhook), Plus(Space), Grp(1, <<Plus(Word)>>), Lit(<<":">>),
      Grp(2, <<Words(K.webhookMethods)>>)>> \o SpacesOptQuoted(3)

\* ^!webhook-body\s+(\S+)(?:\s+"([^"]*)")?
webhookBodyPattern ==
    <<Bol, Lit(K.webhook_body), Plus(Space), Grp(1, <<Plus(NonSpace)>>), OptQuoted(2)>>

\* ^!webhook-response\s+(\d+)\s+(\S+)(?:\s+"([^"]*)")?
webhookRespPattern ==
    <<Bol, Lit(K.webhook_response), Plus(Space), Grp(1, <<Plus(Digit)>>), Plus(Space),
      Grp(2, <<Plus(NonSpace)>>), OptQuoted(3)>>

\* ^!(GET|POST|PUT|DELETE|PATCH|OPTIONS|HEAD)\s+(\S+)\s+->\s+(\S+)(?:\s+"([^"]*)")?
routePattern ==
    <<Bol, Lit(K.bang), Grp(1, <<Words(K.methods)>>), Plus(Space), Grp(2, <<Plus(NonSpace)>>),
      Plus(Space), Lit(K.arrow), Plus(Space), Grp(3, <<Plus(NonSpace)>>), OptQuoted(4)>>

\* ^!(query|path|header|cookie)\s+([\w-]+):(\w+)\??\s*(?:"([^"]*)")?
paramPattern ==
    <<Bol, Lit(K.bang), Grp(1, <<Words(K.params)>>), Plus(Space), Grp(2, <<Plus(WordDash)>>),
      Lit(<<":">>), Grp(3, <<Plus(Word)>>), Opt(<<Lit(<<"?">>)>>)>> \o SpacesOptQuoted(4)

\* ^!body\s+(\S+)(?:\s+"([^"]*)")?
bodyPattern ==
    <<Bol, Lit(K.body), Plus(Space), Grp(1, <<Plus(NonSpace)>>), OptQuoted(2)>>

\* ^!(ok|error)\s+(?:(\d+)\s+)?(\S+)(?:\s+"([^"]*)")?
responsePattern ==
    <<Bol, Lit(K.bang), Grp(1, <<Words(K.responses)>>), Plus(Space),
      Opt(<<Grp(2, <<Plus(Digit)>>), Plus(Space)>>), Grp(3, <<Plus(NonSpace)>>), OptQuoted(4)>>

\* ^!secure\s+(.+)
securePattern ==
    <<Bol, Lit(K.secure), Plus(Space), Grp(1, <<Plus(Char)>>)>>

\* ^!model(?:\s+"([^"]*)")?
modelPattern ==
    <<Bol, Lit(K.model), OptQuoted(1)>>

\* ^!field\s+(\w+):(\w+)\??\s*(?:"([^"]*)")?
fieldPattern ==
    <<Bol, Lit(K.field), Plus(Space), Grp(1, <<Plus(Word)>>), Lit(<<":">>),
      Grp(2, <<Plus(Word)>>), Opt(<<Lit(<<"?">>)>>)>> \o SpacesOptQuoted(3)

\* default=(\S+)
defaultPattern == <<Lit(K.default), Grp(1, <<Plus(NonSpace)>>)>>

\* example=("[^"]*"|\S+)
examplePattern ==
    <<Lit(K.example),
      Grp(1, <<Alt(<< <<Lit(<<QUOTE>>), Star(NotQuote), Lit(<<QUOTE>>)>>, <<Plus(NonSpace)>> >>)>>)>>

\* #(\w+), the tagPattern of extractTags
hashtagPattern == <<Lit(<<"#">>), Grp(1, <<Plus(Word)>>)>>

-----------------------------------------------------------------------------
(* Annotations and the parse functions.                                     *)

\* Annotation{Type, RawLine, Args, Tags}; a nil Tags slice is <<>>
Annotation(aType, line, args, tags) ==
    [Type |-> aType, RawLine |-> line, Args |-> args, Tags |-> tags]

\* make(map[string]string)
EmptyArgs == [key \in {} |-> <<>>]

\* the nil *Annotation
Nil == Annotation("nil", <<>>, EmptyArgs, <<>>)

\* a == nil
IsNil(a) == a.Type = "nil"

\* a.Args[key]: the zero value "" for a key that is not in the map
Arg(a, key) == IF key \in DOMAIN a.Args THEN a.Args[key] ELSE <<>>

\* strings.ToUpper(s)
ToUpper(s) ==
    LET lower == <<"a","b","c","d","e","f","g","h","i","j","k","l","m",
                   "n","o","p","q","r","s","t","u","v","w","x","y","z">>
        upper == <<"A","B","C","D","E","F","G","H","I","J","K","L","M",
                   "N","O","P","Q","R","S","T","U","V","W","X","Y","Z">>
    IN [i \in 1..Len(s) |->
            IF s[i] \in Lower
            THEN upper[CHOOSE n \in 1..Len(lower) : lower[n] = s[i]]
            ELSE s[i]]

RECURSIVE Fields(_)
\* strings.Fields(s)
Fields(s) ==
    LET t == TrimLeft(s, Space)
        e == Extent(t, 1, NonSpace)
    IN IF t = <<>> THEN <<>> ELSE <<SubSeq(t, 1, e - 1)>> \o Fields(SubSeq(t, e, Len(t)))

RECURSIVE Join(_, _)
\* strings.Join(elems, sep)
Join(elems, sep) ==
    IF elems = <<>> THEN <<>>
    ELSE IF Len(elems) = 1 THEN elems[1]
    ELSE elems[1] \o sep \o Join(Tail(elems), sep)

\* matchers := []struct{pattern, aType, keys}{...} of parseSimplePatterns
matchers ==
    <<
       \* ^!api\s+v?([\d.]+)
       [pattern |-> <<Bol, Lit(K.api), Plus(Space), Opt(<<Lit(<<"v">>)>>), Grp(1, <<Plus(DigitDot)>>)>>,
        aType |-> "api", keys |-> <<"version">>],

       \* ^!info\s+"([^"]+)"\s+v?([\d.]+)(?:\s+"([^"]*)")?
       [pattern |-> <<Bol, Lit(K.info), Plus(Space), Lit(<<QUOTE>>), Grp(1, <<Plus(NotQuote)>>), Lit(<<QUOTE>>),
                    Plus(Space), Opt(<<Lit(<<"v">>)>>), Grp(2, <<Plus(DigitDot)>>), OptQuoted(3)>>,
        aType |-> "info", keys |-> <<"title", "version", "description">>],

       \* ^!contact\s+"([^"]*)"(?:\s+<([^>]+)>)?(?:\s+\(([^)]+)\))?
       [pattern |-> <<Bol, Lit(K.contact), Plus(Space), Lit(<<QUOTE>>), Grp(1, <<Star(NotQuote)>>), Lit(<<QUOTE>>),
                    Opt(<<Plus(Space), Lit(<<"<">>), Grp(2, <<Plus(NotGt)>>), Lit(<<">">>)>>),
                    Opt(<<Plus(Space), Lit(<<"(">>), Grp(3, <<Plus(NotParen)>>), Lit(<<")">>)>>)>>,
        aType |-> "contact", keys |-> <<"name", "email", "url">>],

       \* ^!license\s+(\S+)(?:\s+(\S+))?
       [pattern |-> <<Bol, Lit(K.license), Plus(Space), Grp(1, <<Plus(NonSpace)>>),
                    Opt(<<Plus(Space), Grp(2, <<Plus(NonSpace)>>)>>)>>,
        aType |-> "license", keys |-> <<"name", "url">>],

       \* ^!server\s+(\S+)(?:\s+"([^"]*)")?
       [pattern |-> <<Bol, Lit(K.server), Plus(Space), Grp(1, <<Plus(NonSpace)>>), OptQuoted(2)>>,
        aType |-> "server", keys |-> <<"url", "description">>],

       \* ^!tag\s+(\S+)(?:\s+"([^"]*)")?
       [pattern |-> <<Bol, Lit(K.tag), Plus(Space), Grp(1, <<Plus(NonSpace)>>), OptQuoted(2)>>,
        aType |-> "tag", keys |-> <<"name", "description">>],

       \* ^!tos\s+(\S+)
       [pattern |-> <<Bol, Lit(K.tos), Plus(Space), Grp(1, <<Plus(NonSpace)>>)>>,
        aType |-> "tos", keys |-> <<"url">>],

       \* ^!security\s+(\w+):(apiKey|oauth2|http|openIdConnect):?(\w*)(?:\s+"([^"]*)")?(?:\s+(\S+))?
       [pattern |-> <<Bol, Lit(K.security), Plus(Space), Grp(1, <<Plus(Word)>>), Lit(<<":">>),
                    Grp(2, <<Words(K.schemes)>>), Opt(<<Lit(<<":">>)>>), Grp(3, <<Star(Word)>>),
                    OptQuoted(4), Opt(<<Plus(Space), Grp(5, <<Plus(NonSpace)>>)>>)>>,
        aType |-> "security", keys |-> <<"name", "type", "location", "description", "url">>],

       \* ^!scope\s+(\w+)\s+([\w:]+)(?:\s+"([^"]*)")?
       [pattern |-> <<Bol, Lit(K.scope), Plus(Space), Grp(1, <<Plus(Word)>>), Plus(Space),
                    Grp(2, <<Plus(WordColon)>>), OptQuoted(3)>>,
        aType |-> "scope", keys |-> <<"security", "name", "description">>],

       \* ^!externalDocs\s+(\S+)(?:\s+"([^"]*)")?
       [pattern |-> <<Bol, Lit(K.externalDocs), Plus(Space), Grp(1, <<Plus(NonSpace)>>), OptQuoted(2)>>,
        aType |-> "externalDocs", keys |-> <<"url", "description">>],

       \* ^!link\s+"([^"]+)"\s+(\S+)
       [pattern |-> <<Bol, Lit(K.link), Plus(Space), Lit(<<QUOTE>>), Grp(1, <<Plus(NotQuote)>>), Lit(<<QUOTE>>),
                    Plus(Space), Grp(2, <<Plus(NonSpace)>>)>>,
        aType |-> "link", keys |-> <<"label", "url">>]
    >>

\* a key is set only for a group that matched some text
simpleArgsNonEmpty(keys, match) ==
    [key \in {keys[j] : j \in {j \in 1..Len(keys) : j < Len(match) /\ G(match, j) # <<>>}} |->
        G(match, CHOOSE j \in 1..Len(keys) : keys[j] = key)]

\* for i, key := range keys { if i+1 < len(match) { args[key] = match[i+1] } }
simpleArgs(keys, match) ==
    [key \in {keys[j] : j \in {j \in 1..Len(keys) : j < Len(match)}} |->
        G(match, CHOOSE j \in 1..Len(keys) : keys[j] = key)]

RECURSIVE parseSimpleFrom(_, _)
\* for _, m := range matchers: the first matcher whose pattern matches
parseSimpleFrom(line, ms) ==
    IF ms = <<>> THEN Nil
    ELSE LET match == FindStringSubmatch(Head(ms).pattern, line)
         IN IF match # NoMatch
            THEN Annotation(Head(ms).aType, line, simpleArgs(Head(ms).keys, match), <<>>)
            ELSE parseSimpleFrom(line, Tail(ms))

parseSimplePatterns(line) == parseSimpleFrom(line, matchers)

\* extractTags(line)
extractTags(line) ==
    LET matches == FindAllStringSubmatch(hashtagPattern, line)
    IN IF matches = <<>> THEN <<>> ELSE [n \in 1..Len(matches) |-> G(matches[n], 1)]

parseRoutePattern(line) ==
    LET match == FindStringSubmatch(routePattern, line)
    IN IF match = NoMatch THEN Nil
       ELSE Annotation("route", line,
                [method |-> ToUpper(G(match, 1)), path |-> G(match, 2),
                 operationId |-> G(match, 3), summary |-> G(match, 4)],
                extractTags(line))

\* strings.HasSuffix instead of strings.Contains
withRequiredSuffix(line, args) ==
    IF Len(line) >= Len(K.required)
       /\ SubSeq(line, Len(line) - Len(K.required) + 1, Len(line)) = K.required
    THEN ("required" :> argTrue) @@ args ELSE args

\* if strings.Contains(line, " required") { args["required"] = argTrue }
withRequired(line, args) ==
    IF Contains(line, K.required) THEN ("required" :> argTrue) @@ args ELSE args

\* if defMatch := default=(\S+) ...; args["default"] = strings.Trim(defMatch[1], `"'`)
withDefault(line, args) ==
    LET defMatch == FindStringSubmatch(defaultPattern, line)
    IN IF defMatch # NoMatch
       THEN ("default" :> Trim(G(defMatch, 1), {QUOTE, APOS})) @@ args
       ELSE args

\* if exMatch := example=("[^"]*"|\S+) ...; args["example"] = strings.Trim(exMatch[1], `"'`)
withExample(line, args) ==
    LET exMatch == FindStringSubmatch(examplePattern, line)
    IN IF exMatch # NoMatch
       THEN ("example" :> Trim(G(exMatch, 1), {QUOTE, APOS})) @@ args
       ELSE args

parseParamPattern(line) ==
    LET match == FindStringSubmatch(paramPattern, line)
        args == [in |-> G(match, 1), name |-> G(match, 2), type |-> G(match, 3),
                 description |-> G(match, 4)]
        aType == IF G(match, 1) = K.path THEN "path"
                 ELSE IF G(match, 1) = K.header THEN "header"
                 ELSE "query"
    IN IF match = NoMatch THEN Nil
       ELSE Annotation(aType, line, withDefault(line, withRequired(line, args)), <<>>)

parseBodyPattern(line) ==
    LET match == FindStringSubmatch(bodyPattern, line)
        args == [schema |-> G(match, 1), description |-> G(match, 2)]
    IN IF match = NoMatch THEN Nil
       ELSE Annotation("body", line, withRequired(line, args), <<>>)

\* the default of !ok applied to !error as well
defaultStatusAlways200(kind, statusCode) ==
    IF statusCode = <<>> THEN K.status200 ELSE statusCode

\* the status of parseResponsePattern: the written one, else 200 for ok, 500 for error
defaultStatus(kind, statusCode) ==
    IF kind = K.ok /\ statusCode = <<>> THEN K.status200
    ELSE IF kind = K.error /\ statusCode = <<>> THEN K.status500
    ELSE statusCode

parseResponsePattern(line) ==
    LET match == FindStringSubmatch(responsePattern, line)
        aType == IF G(match, 1) = K.error THEN "error" ELSE "ok"
    IN IF match = NoMatch THEN Nil
       ELSE Annotation(aType, line,
                [status |-> defaultStatus(G(match, 1), G(match, 2)),
                 schema |-> G(match, 3), description |-> G(match, 4)],
                <<>>)

parseSecurePattern(line) ==
    LET match == FindStringSubmatch(securePattern, line)
        names == Fields(G(match, 1))
    IN IF match = NoMatch THEN Nil
       ELSE Annotation("secure", line, [names |-> Join(names, <<",">>)], names)

parseWebhookPattern(line) ==
    LET w == FindStringSubmatch(webhookPattern, line)
        b == FindStringSubmatch(webhookBodyPattern, line)
        r == FindStringSubmatch(webhookRespPattern, line)
    IN IF w # NoMatch
       THEN Annotation("webhook", line,
                [name |-> G(w, 1), method |-> G(w, 2), description |-> G(w, 3)], <<>>)
       ELSE IF b # NoMatch
       THEN Annotation("webhook-body", line,
                [schema |-> G(b, 1), description |-> G(b, 2)], <<>>)
       ELSE IF r # NoMatch
       THEN Annotation("webhook-response", line,
                [status |-> G(r, 1), schema |-> G(r, 2), description |-> G(r, 3)], <<>>)
       ELSE Nil

parseModelPattern(line) ==
    LET match == FindStringSubmatch(modelPattern, line)
    IN IF match = NoMatch THEN Nil
       ELSE Annotation("model", line, [description |-> G(match, 1)], <<>>)

parseFieldPattern(line) ==
    LET match == FindStringSubmatch(fieldPattern, line)
        args == [name |-> G(match, 1), type |-> G(match, 2), description |-> G(match, 3)]
    IN IF match = NoMatch THEN Nil
       ELSE Annotation("field", line, withExample(line, withRequired(line, args)), <<>>)

\* parseLine: the first parse function that returns an annotation
parseLine(line) ==
    IF ~IsNil(parseSimplePatterns(line)) THEN parseSimplePatterns(line)
    ELSE IF ~IsNil(parseRoutePattern(line)) THEN parseRoutePattern(line)
    ELSE IF ~IsNil(parseParamPattern(line)) THEN parseParamPattern(line)
    ELSE IF ~IsNil(parseBodyPattern(line)) THEN parseBodyPattern(line)
    ELSE IF ~IsNil(parseResponsePattern(line)) THEN parseResponsePattern(line)
    ELSE IF ~IsNil(parseSecurePattern(line)) THEN parseSecurePattern(line)
    ELSE IF ~IsNil(parseWebhookPattern(line)) THEN parseWebhookPattern(line)
    ELSE IF ~IsNil(parseModelPattern(line)) THEN parseModelPattern(line)
    ELSE parseFieldPattern(line)

\* GetParam(a).Required
GetParamRequired(a) == Arg(a, "required") = argTrue
\* GetParam(a).Default
GetParamDefault(a) == Arg(a, "default")
\* GetBody(a).Required
GetBodyRequired(a) == Arg(a, "required") = argTrue
\* GetField(a).Required
GetFieldRequired(a) == Arg(a, "required") = argTrue
\* GetResponse(a).Status
GetResponseStatus(a) == Arg(a, "status")
\* GetRoute(a).Tags
GetRouteTags(a) == a.Tags

-----------------------------------------------------------------------------
(* The comment text given to Parse.  A line is described by what its       *)
(* author wrote (keyword, status code, description, flags, tags) and       *)
(* rendered into characters following the directive syntax documented in   *)
(* NewAnnotationParser; Parse sees the characters only.                    *)

MaxLines == 3

Blank ==
    [form |-> "literal", keyword |-> <<>>, fits |-> FALSE, line |-> <<>>,
     mark |-> FALSE, status |-> <<>>, schema |-> <<>>, hasDesc |-> FALSE, desc |-> <<>>,
     required |-> FALSE, deflt |-> "none", value |-> <<>>,
     path |-> <<>>, operationId |-> <<>>, tags |-> <<>>]

Literal(chars, kw, fits) ==
    [Blank EXCEPT !.line = chars, !.keyword = kw, !.fits = fits]

\* the descriptions, values, status codes, schemas, paths, operationIds and tags
\* the written lines are made of
sample ==
    [d |-> <<"d">>,
     dRequired |-> <<"i","s"," ","r","e","q","u","i","r","e","d">>,
     dHash |-> <<"s"," ","#","z">>,
     v10 |-> <<"1","0">>,
     vx |-> <<"x">>,
     vab |-> <<"a"," ","b">>,
     st201 |-> <<"2","0","1">>,
     st404 |-> <<"4","0","4">>,
     U |-> <<"U">>,
     Uarr |-> <<"U","[","]">>,
     pU |-> <<"/","u">>,
     pHash |-> <<"/","u","#","x">>,
     opG |-> <<"g">>,
     opHash |-> <<"g","#","y">>,
     tA |-> <<"a">>,
     tB |-> <<"b","_","1">>]

\* !ok SchemaRef "description" or !ok 201 SchemaRef "description"; !error 404 SchemaRef "description"
ResponseWritten ==
    {[Blank EXCEPT !.form = "response", !.keyword = kw, !.status = st, !.schema = sc,
                   !.hasDesc = hd, !.desc = sample.d,
                   !.fits = (st # <<>> \/ sc # <<>> \/ hd)] :
        kw \in {K.ok, K.error}, st \in {<<>>, sample.st201, sample.st404},
        sc \in {sample.U, sample.Uarr, <<>>}, hd \in BOOLEAN}

\* !query name:type "description" default=value required; !path ...; !header ...
ParamWritten ==
    {[Blank EXCEPT !.form = "param", !.keyword = kw[1], !.mark = kw[2],
                   !.hasDesc = (d # <<>>), !.desc = d, !.required = rq,
                   !.deflt = df[1], !.value = df[2], !.fits = TRUE] :
        kw \in {<<K.params[1], FALSE>>, <<K.params[1], TRUE>>, <<K.params[2], FALSE>>,
                <<K.params[3], FALSE>>, <<K.params[4], FALSE>>},
        d \in {sample.d, sample.dRequired, <<>>}, rq \in BOOLEAN,
        df \in {<<"none", <<>> >>, <<"bare", sample.v10>>, <<"quoted", sample.vx>>, <<"quoted", sample.vab>>}}

\* !body SchemaRef "description" required
BodyWritten ==
    {[Blank EXCEPT !.form = "body", !.keyword = Tail(K.body), !.schema = sample.U,
                   !.hasDesc = (d # <<>>), !.desc = d, !.required = rq, !.fits = TRUE] :
        d \in {sample.d, sample.dRequired, <<>>}, rq \in BOOLEAN}

\* !field name:type "description" required example=value
FieldWritten ==
    {[Blank EXCEPT !.form = "field", !.keyword = Tail(K.field),
                   !.hasDesc = (d # <<>>), !.desc = d, !.required = rq,
                   !.deflt = df[1], !.value = df[2], !.fits = TRUE] :
        d \in {sample.d, sample.dRequired, <<>>}, rq \in BOOLEAN,
        df \in {<<"none", <<>> >>, <<"bare", sample.v10>>, <<"quoted", sample.vab>>}}

\* !GET /path -> operationId "summary" #tag1 #tag2
RouteWritten ==
    {[Blank EXCEPT !.form = "route", !.keyword = m, !.path = po[1], !.operationId = po[2],
                   !.hasDesc = (d # <<>>), !.desc = d, !.tags = tg, !.fits = TRUE] :
        m \in {K.methods[1], K.methods[2]},
        po \in {<<sample.pU, sample.opG>>, <<sample.pHash, sample.opG>>, <<sample.pU, sample.opHash>>},
        d \in {<<>>, sample.d, sample.dHash},
        tg \in {<<>>, <<sample.tA>>, <<sample.tA, sample.tB>>, <<sample.tA, sample.tA>>}}

LiteralWritten == {
    \* !api 3.0.3
    Literal(<<"!","a","p","i"," ","3",".","0",".","3">>,
            <<"a","p","i">>, TRUE),
    \* !api v3.1
    Literal(<<"!","a","p","i"," ","v","3",".","1">>,
            <<"a","p","i">>, TRUE),
    \* !api x
    Literal(<<"!","a","p","i"," ","x">>,
            <<"a","p","i">>, FALSE),
    \* !info "T" v1.0 "d"
    Literal(<<"!","i","n","f","o"," ","\"","T","\""," ","v","1",".","0"," ","\"","d","\"">>,
            <<"i","n","f","o">>, TRUE),
    \* !info "T" 1.0
    Literal(<<"!","i","n","f","o"," ","\"","T","\""," ","1",".","0">>,
            <<"i","n","f","o">>, TRUE),
    \* !info T
    Literal(<<"!","i","n","f","o"," ","T">>,
            <<"i","n","f","o">>, FALSE),
    \* !contact "N" <a@b> (u)
    Literal(<<"!","c","o","n","t","a","c","t"," ","\"","N","\""," ","<","a","@","b",">"," ","(","u",")">>,
            <<"c","o","n","t","a","c","t">>, TRUE),
    \* !contact "N" <a@b>
    Literal(<<"!","c","o","n","t","a","c","t"," ","\"","N","\""," ","<","a","@","b",">">>,
            <<"c","o","n","t","a","c","t">>, TRUE),
    \* !contact "" (u)
    Literal(<<"!","c","o","n","t","a","c","t"," ","\"","\""," ","(","u",")">>,
            <<"c","o","n","t","a","c","t">>, TRUE),
    \* !license MIT u
    Literal(<<"!","l","i","c","e","n","s","e"," ","M","I","T"," ","u">>,
            <<"l","i","c","e","n","s","e">>, TRUE),
    \* !license MIT
    Literal(<<"!","l","i","c","e","n","s","e"," ","M","I","T">>,
            <<"l","i","c","e","n","s","e">>, TRUE),
    \* !server u "d"
    Literal(<<"!","s","e","r","v","e","r"," ","u"," ","\"","d","\"">>,
            <<"s","e","r","v","e","r">>, TRUE),
    \* !server u
    Literal(<<"!","s","e","r","v","e","r"," ","u">>,
            <<"s","e","r","v","e","r">>, TRUE),
    \* !tag users "d"
    Literal(<<"!","t","a","g"," ","u","s","e","r","s"," ","\"","d","\"">>,
            <<"t","a","g">>, TRUE),
    \* !tag users
    Literal(<<"!","t","a","g"," ","u","s","e","r","s">>,
            <<"t","a","g">>, TRUE),
    \* !tags users
    Literal(<<"!","t","a","g","s"," ","u","s","e","r","s">>,
            <<"t","a","g","s">>, FALSE),
    \* !tos u
    Literal(<<"!","t","o","s"," ","u">>,
            <<"t","o","s">>, TRUE),
    \* !tos
    Literal(<<"!","t","o","s">>,
            <<"t","o","s">>, FALSE),
    \* !security k:apiKey:header "d"
    Literal(<<"!","s","e","c","u","r","i","t","y"," ","k",":","a","p","i","K","e","y",":","h","e","a","d","e","r"," ","\"","d","\"">>,
            <<"s","e","c","u","r","i","t","y">>, TRUE),
    \* !security p:oauth2 "d" u
    Literal(<<"!","s","e","c","u","r","i","t","y"," ","p",":","o","a","u","t","h","2"," ","\"","d","\""," ","u">>,
            <<"s","e","c","u","r","i","t","y">>, TRUE),
    \* !security p:oauth2:implicit "d" u
    Literal(<<"!","s","e","c","u","r","i","t","y"," ","p",":","o","a","u","t","h","2",":","i","m","p","l","i","c","i","t"," ","\"","d","\""," ","u">>,
            <<"s","e","c","u","r","i","t","y">>, TRUE),
    \* !security b:http
    Literal(<<"!","s","e","c","u","r","i","t","y"," ","b",":","h","t","t","p">>,
            <<"s","e","c","u","r","i","t","y">>, TRUE),
    \* !security o:openIdConnect u
    Literal(<<"!","s","e","c","u","r","i","t","y"," ","o",":","o","p","e","n","I","d","C","o","n","n","e","c","t"," ","u">>,
            <<"s","e","c","u","r","i","t","y">>, TRUE),
    \* !security b:basic
    Literal(<<"!","s","e","c","u","r","i","t","y"," ","b",":","b","a","s","i","c">>,
            <<"s","e","c","u","r","i","t","y">>, FALSE),
    \* !scope p w:p "d"
    Literal(<<"!","s","c","o","p","e"," ","p"," ","w",":","p"," ","\"","d","\"">>,
            <<"s","c","o","p","e">>, TRUE),
    \* !scope p w:p
    Literal(<<"!","s","c","o","p","e"," ","p"," ","w",":","p">>,
            <<"s","c","o","p","e">>, TRUE),
    \* !scope p
    Literal(<<"!","s","c","o","p","e"," ","p">>,
            <<"s","c","o","p","e">>, FALSE),
    \* !externalDocs u "d"
    Literal(<<"!","e","x","t","e","r","n","a","l","D","o","c","s"," ","u"," ","\"","d","\"">>,
            <<"e","x","t","e","r","n","a","l","D","o","c","s">>, TRUE),
    \* !externalDocs u
    Literal(<<"!","e","x","t","e","r","n","a","l","D","o","c","s"," ","u">>,
            <<"e","x","t","e","r","n","a","l","D","o","c","s">>, TRUE),
    \* !link "L" u
    Literal(<<"!","l","i","n","k"," ","\"","L","\""," ","u">>,
            <<"l","i","n","k">>, TRUE),
    \* !link L u
    Literal(<<"!","l","i","n","k"," ","L"," ","u">>,
            <<"l","i","n","k">>, FALSE),
    \* !webhook n:post "d"
    Literal(<<"!","w","e","b","h","o","o","k"," ","n",":","p","o","s","t"," ","\"","d","\"">>,
            <<"w","e","b","h","o","o","k">>, TRUE),
    \* !webhook n:post
    Literal(<<"!","w","e","b","h","o","o","k"," ","n",":","p","o","s","t">>,
            <<"w","e","b","h","o","o","k">>, TRUE),
    \* !webhook n:head
    Literal(<<"!","w","e","b","h","o","o","k"," ","n",":","h","e","a","d">>,
            <<"w","e","b","h","o","o","k">>, FALSE),
    \* !webhook-body S "d" required
    Literal(<<"!","w","e","b","h","o","o","k","-","b","o","d","y"," ","S"," ","\"","d","\""," ","r","e","q","u","i","r","e","d">>,
            <<"w","e","b","h","o","o","k","-","b","o","d","y">>, TRUE),
    \* !webhook-body S
    Literal(<<"!","w","e","b","h","o","o","k","-","b","o","d","y"," ","S">>,
            <<"w","e","b","h","o","o","k","-","b","o","d","y">>, TRUE),
    \* !webhook-response 200 S "d"
    Literal(<<"!","w","e","b","h","o","o","k","-","r","e","s","p","o","n","s","e"," ","2","0","0"," ","S"," ","\"","d","\"">>,
            <<"w","e","b","h","o","o","k","-","r","e","s","p","o","n","s","e">>, TRUE),
    \* !webhook-response S
    Literal(<<"!","w","e","b","h","o","o","k","-","r","e","s","p","o","n","s","e"," ","S">>,
            <<"w","e","b","h","o","o","k","-","r","e","s","p","o","n","s","e">>, FALSE),
    \* !secure k p
    Literal(<<"!","s","e","c","u","r","e"," ","k"," ","p">>,
            <<"s","e","c","u","r","e">>, TRUE),
    \* !secure k
    Literal(<<"!","s","e","c","u","r","e"," ","k">>,
            <<"s","e","c","u","r","e">>, TRUE),
    \* !secure
    Literal(<<"!","s","e","c","u","r","e">>,
            <<"s","e","c","u","r","e">>, FALSE),
    \* !model "d"
    Literal(<<"!","m","o","d","e","l"," ","\"","d","\"">>,
            <<"m","o","d","e","l">>, TRUE),
    \* !model
    Literal(<<"!","m","o","d","e","l">>,
            <<"m","o","d","e","l">>, TRUE),
    \* !models
    Literal(<<"!","m","o","d","e","l","s">>,
            <<"m","o","d","e","l","s">>, FALSE),
    \* !modelling "d"
    Literal(<<"!","m","o","d","e","l","l","i","n","g"," ","\"","d","\"">>,
            <<"m","o","d","e","l","l","i","n","g">>, FALSE),
    \* !foo x
    Literal(<<"!","f","o","o"," ","x">>,
            <<"f","o","o">>, FALSE),
    \* !get /u -> g
    Literal(<<"!","g","e","t"," ","/","u"," ","-",">"," ","g">>,
            <<"g","e","t">>, FALSE),
    \* !GET /u g
    Literal(<<"!","G","E","T"," ","/","u"," ","g">>,
            <<"G","E","T">>, FALSE),
    \* !okay U
    Literal(<<"!","o","k","a","y"," ","U">>,
            <<"o","k","a","y">>, FALSE),
    \* !query id
    Literal(<<"!","q","u","e","r","y"," ","i","d">>,
            <<"q","u","e","r","y">>, FALSE),
    \* !field n
    Literal(<<"!","f","i","e","l","d"," ","n">>,
            <<"f","i","e","l","d">>, FALSE),
    \* !body
    Literal(<<"!","b","o","d","y">>,
            <<"b","o","d","y">>, FALSE),
    \* hello !api 3.0
    Literal(<<"h","e","l","l","o"," ","!","a","p","i"," ","3",".","0">>,
            <<>>, FALSE),
    \* (an empty line)
    Literal(<<>>,
            <<>>, FALSE),
    \* required
    Literal(<<"r","e","q","u","i","r","e","d">>,
            <<>>, FALSE),
    \*  \t!api 3.0 
    Literal(<<" ","\t","!","a","p","i"," ","3",".","0"," ">>,
            <<"a","p","i">>, TRUE),
    \*   !ok U
    Literal(<<" "," ","!","o","k"," ","U">>,
            <<"o","k">>, TRUE)
    }

RECURSIVE RenderTags(_)
RenderTags(tags) ==
    IF tags = <<>> THEN <<>> ELSE <<SP, "#">> \o Head(tags) \o RenderTags(Tail(tags))

\* the characters of a written line
Render(w) ==
    LET Quoted(str) == <<QUOTE>> \o str \o <<QUOTE>>
        desc == IF w.hasDesc THEN <<SP>> \o Quoted(w.desc) ELSE <<>>
        required == IF w.required THEN K.required ELSE <<>>
        Value(key) ==
            CASE w.deflt = "none" -> <<>>
              [] w.deflt = "bare" -> <<SP>> \o key \o w.value
              [] w.deflt = "quoted" -> <<SP>> \o key \o Quoted(w.value)
    IN
    CASE w.form = "literal" -> w.line
      [] w.form = "response" ->
            K.bang \o w.keyword \o <<SP>>
                 \o (IF w.status # <<>> THEN w.status \o <<SP>> ELSE <<>>)
                 \o w.schema \o desc
      [] w.form = "param" ->
            K.bang \o w.keyword \o <<SP>>
                 \o (IF w.keyword = K.header THEN <<"X","-","T">> ELSE <<"i","d">>)
                 \o <<":","i","n","t">> \o (IF w.mark THEN <<"?">> ELSE <<>>)
                 \o desc \o Value(K.default) \o required
      [] w.form = "body" ->
            K.bang \o w.keyword \o <<SP>> \o w.schema \o desc \o required
      [] w.form = "field" ->
            K.bang \o w.keyword \o <<SP>> \o <<"n",":","s","t","r">>
                 \o desc \o required \o Value(K.example)
      [] w.form = "route" ->
            K.bang \o w.keyword \o <<SP>> \o w.path \o <<SP>> \o K.arrow \o <<SP>>
                 \o w.operationId \o desc \o RenderTags(w.tags)

AllWritten ==
    ResponseWritten \cup ParamWritten \cup BodyWritten \cup FieldWritten
        \cup RouteWritten \cup LiteralWritten

\* the lines that blocks of several lines are made of
CoreWritten ==
    {w \in LiteralWritten :
        w.line \in {<<"!","a","p","i"," ","3",".","0",".","3">>,
                    <<"h","e","l","l","o"," ","!","a","p","i"," ","3",".","0">>,
                    <<>>,
                    <<" ","\t","!","a","p","i"," ","3",".","0"," ">>,
                    <<"!","f","o","o"," ","x">>}}
    \cup {w \in ResponseWritten : w.keyword = K.ok /\ w.status = <<>> /\ w.schema = sample.U /\ ~w.hasDesc}
    \cup {w \in RouteWritten :
            w.keyword = K.methods[1] /\ w.path = sample.pU /\ w.operationId = sample.opG
            /\ w.desc = sample.d /\ w.tags = <<sample.tA>>}

Inputs ==
    {<<w>> : w \in AllWritten} \cup UNION {[1..n -> CoreWritten] : n \in 2..MaxLines}

-----------------------------------------------------------------------------
(* Parse as a loop over the lines.                         *)

\* the document assembly is idle while the parser runs
AssemblerIdle ==
    /\ blocks = <<>>
    /\ bpos = 1
    /\ paths = <<>>
    /\ diagnostics = <<>>

\* no request is served while the parser or the assembly runs
HttpIdle ==
    /\ hpc = "idle"
    /\ middlewares = <<>>
    /\ handler = <<>>
    /\ ci = 0
    /\ depth = 0
    /\ order = <<>>
    /\ spec = <<>>
    /\ options = <<>>
    /\ req = <<>>
    /\ resp = <<>>
    /\ plugin = <<>>
    /\ mux = {}

\* no audit runs
AuditIdle ==
    /\ apc = "idle"
    /\ doc = <<>>
    /\ visited = {}
    /\ result = <<>>
    /\ findings = <<>>

\* no document is patched
UiIdle ==
    /\ document = <<>>
    /\ data = <<>>
    /\ previous = <<>>
    /\ calls = 0
    /\ server = <<>>
    /\ err = ""
    /\ chosen = <<>>
    /\ served = <<>>
    /\ ncalls = 0

\* Parse(text): var annotations []Annotation; lines := strings.Split(text, "\n")
Init ==
    /\ written \in Inputs
    /\ text = [k \in 1..Len(written) |-> Render(written[k])]
    /\ pc = "loop"
    /\ pos = 1
    /\ annotations = <<>>
    /\ AssemblerIdle
    /\ HttpIdle
    /\ AuditIdle
    /\ UiIdle

\* the line of the range loop, not trimmed
CurrentLineUntrimmed == text[pos]

\* line = strings.TrimSpace(line)
CurrentLine == TrimSpace(text[pos])

\* if !strings.HasPrefix(line, "!") { continue }
SkipLine ==
    /\ pc = "loop"
    /\ pos <= Len(text)
    /\ ~HasPrefix(CurrentLine, K.bang)
    /\ pos' = pos + 1
    /\ UNCHANGED <<written, text, pc, annotations, assemblerVars, httpVars, auditVars, uiVars>>

\* if a := p.parseLine(line); a != nil { annotations = append(annotations, *a) }
AppendAnnotation ==
    /\ pc = "loop"
    /\ pos <= Len(text)
    /\ HasPrefix(CurrentLine, K.bang)
    /\ ~IsNil(parseLine(CurrentLine))
    /\ annotations' = Append(annotations, parseLine(CurrentLine))
    /\ pos' = pos + 1
    /\ UNCHANGED <<written, text, pc, assemblerVars, httpVars, auditVars, uiVars>>

\* parseLine returned nil: nothing is appended
DropLine ==
    /\ pc = "loop"
    /\ pos <= Len(text)
    /\ HasPrefix(CurrentLine, K.bang)
    /\ IsNil(parseLine(CurrentLine))
    /\ pos' = pos + 1
    /\ UNCHANGED <<written, text, pc, annotations, assemblerVars, httpVars, auditVars, uiVars>>

\* return annotations
Return ==
    /\ pc = "loop"
    /\ pos > Len(text)
    /\ pc' = "done"
    /\ UNCHANGED <<written, text, pos, annotations, assemblerVars, httpVars, auditVars, uiVars>>

Next == SkipLine \/ AppendAnnotation \/ DropLine \/ Return

Spec == Init /\ [][Next]_vars

\* for _, line := range lines: the loop takes its next line, or ends
Range ==
    /\ pc = "loop"
    /\ pos' = (IF pos <= Len(text) THEN pos + 1 ELSE pos)
    /\ pc' = (IF pos <= Len(text) THEN "loop" ELSE "done")

\* the range loop runs on until it has gone through its slice
SpecParse == Spec /\ WF_<<pc, pos>>(Range)

-----------------------------------------------------------------------------
(* Properties of the parser.                                                *)

\* the lines the range loop has gone through
Processed == 1..(pos - 1)

\* the annotations Parse produced for line k
Produced(k) ==
    {annotations[i] : i \in {i \in 1..Len(annotations) :
                                annotations[i].RawLine = TrimSpace(text[k])}}

\* line k is a response directive (with a schema) written without a status code
NoStatusWritten(k) ==
    /\ written[k].form = "response"
    /\ written[k].status = <<>>
    /\ written[k].schema # <<>>

\* C1: every !ok directive written without a status code yields an annotation
\* whose status is exactly "200", every such !error directive one whose status
\* is exactly "500".
C1_DefaultStatus ==
    \A k \in Processed :
        NoStatusWritten(k) =>
            /\ Produced(k) # {}
            /\ \A a \in Produced(k) :
                  /\ written[k].keyword = K.ok => a.Type = "ok" /\ GetResponseStatus(a) = K.status200
                  /\ written[k].keyword = K.error =>
                        a.Type = "error" /\ GetResponseStatus(a) = K.status500

C1_Witness ==
    \E k \in Processed :
        /\ NoStatusWritten(k)
        /\ written[k].keyword = K.error
        /\ \E a \in Produced(k) : GetResponseStatus(a) = K.status500

\* C2: a response directive whose first token after the keyword is a numeric
\* status code yields an annotation whose status is that code; the 200/500
\* default is not applied.
C2_WrittenStatusKept ==
    \A k \in Processed :
        (written[k].form = "response" /\ written[k].status # <<>>) =>
            \A a \in Produced(k) : GetResponseStatus(a) = written[k].status

\* C3: for every recognized parameter directive, GetParam(a).Required is true
\* iff the directive line contains the substring " required".
C3_RequiredIffContains ==
    \A k \in Processed :
        written[k].form = "param" =>
            /\ Produced(k) # {}
            /\ \A a \in Produced(k) :
                  /\ a.Type \in {"query", "path", "header"}
                  /\ GetParamRequired(a) <=>
                        (\E i \in 1..(Len(text[k]) - Len(K.required) + 1) :
                            SubSeq(text[k], i, i + Len(K.required) - 1) = K.required)

C3_Witness ==
    \E k \in Processed :
        /\ written[k].form = "param"
        /\ written[k].desc = sample.dRequired
        /\ ~written[k].required
        /\ \E a \in Produced(k) : a.Type = "header" /\ GetParamRequired(a)

\* C4: for parameter, body and field directives, required is set iff
\* " required" occurs after the part of the line the grammar matched; an
\* occurrence inside the quoted description does not count.
C4_RequiredAfterPrefixOnly ==
    \A k \in Processed :
        written[k].form \in {"param", "body", "field"} =>
            \A a \in Produced(k) :
                (CASE written[k].form = "param" -> GetParamRequired(a)
                   [] written[k].form = "body" -> GetBodyRequired(a)
                   [] written[k].form = "field" -> GetFieldRequired(a))
                    <=> written[k].required

\* C5: a parameter directive carrying default="X" or default=X yields the
\* default X, quotes removed, also when the quoted X contains spaces.
C5_DefaultValue ==
    \A k \in Processed :
        (written[k].form = "param" /\ written[k].deflt # "none") =>
            \A a \in Produced(k) : GetParamDefault(a) = written[k].value

\* C6: the tag list of a route directive is exactly the #tag tokens written
\* after the summary, in order, duplicates kept; a # in the path, the
\* operationId or the summary contributes no tag.
C6_TagsAfterSummary ==
    \A k \in Processed :
        written[k].form = "route" =>
            \A a \in Produced(k) : GetRouteTags(a) = written[k].tags

\* the lines among the first n that start with ! after trimming, trimmed, in order
RECURSIVE DirectiveLines(_, _)
DirectiveLines(lines, n) ==
    IF n = 0 THEN <<>>
    ELSE LET l == TrimLeft(TrimRight(lines[n], Space), Space)
         IN DirectiveLines(lines, n - 1)
                \o (IF l # <<>> /\ l[1] = "!" THEN <<l>> ELSE <<>>)

\* the annotations of a sequence of directive lines: one per line parseLine accepts
RECURSIVE AnnotationsOf(_)
AnnotationsOf(ls) ==
    IF ls = <<>> THEN <<>>
    ELSE AnnotationsOf(SubSeq(ls, 1, Len(ls) - 1))
            \o (IF IsNil(parseLine(ls[Len(ls)])) THEN <<>> ELSE <<parseLine(ls[Len(ls)])>>)

\* what holds of the loop of Parse in every state
C7_Inv ==
    /\ pos \in 1..(Len(text) + 1)
    /\ Len(annotations) <= pos - 1
    /\ annotations = AnnotationsOf(DirectiveLines(text, pos - 1))
    /\ \A k \in Processed : written[k].keyword = <<>> => Produced(k) = {}

\* every step of Parse goes on to the next line or returns
C7_Step ==
    \/ pc = "loop" /\ pc' = "loop" /\ pos' = pos + 1
    \/ pc = "loop" /\ pc' = "done" /\ pos = Len(text) + 1 /\ annotations' = annotations

\* C7: Parse terminates without failing and returns at most one annotation per
\* line, in the order of the lines; a line that does not start with ! after
\* trimming yields nothing and does not change what the other lines yield.
C7_LinesInOrder == [](C7_Inv) /\ [][C7_Step]_vars /\ <>(pc = "done")

C7_Witness ==
    /\ pc = "done"
    /\ Len(text) = 3
    /\ Len(annotations) = 2
    /\ annotations[1].Type = "route"
    /\ annotations[2].Type = "api"
    /\ written[2].keyword = <<>>

\* the directive keywords and the kind each one yields
KnownKeywords ==
    {Tail(K.api), Tail(K.info), Tail(K.contact), Tail(K.license), Tail(K.server),
     Tail(K.tag), Tail(K.tos), Tail(K.security), Tail(K.scope),
     Tail(K.externalDocs), Tail(K.link), Tail(K.webhook), Tail(K.webhook_body),
     Tail(K.webhook_response), Tail(K.body), Tail(K.secure), Tail(K.model),
     Tail(K.field)}
    \cup {K.methods[i] : i \in 1..Len(K.methods)}
    \cup {K.params[i] : i \in 1..Len(K.params)}
    \cup {K.responses[i] : i \in 1..Len(K.responses)}

KindOf(kw) ==
    CASE kw \in {K.methods[i] : i \in 1..Len(K.methods)} -> <<"route">>
      [] kw \in {K.params[1], K.params[4]} -> <<"query">>
      [] kw = K.params[2] -> <<"path">>
      [] kw = K.params[3] -> <<"header">>
      [] kw = Tail(K.api) -> <<"api">>
      [] kw = Tail(K.info) -> <<"info">>
      [] kw = Tail(K.contact) -> <<"contact">>
      [] kw = Tail(K.license) -> <<"license">>
      [] kw = Tail(K.server) -> <<"server">>
      [] kw = Tail(K.tag) -> <<"tag">>
      [] kw = Tail(K.tos) -> <<"tos">>
      [] kw = Tail(K.security) -> <<"security">>
      [] kw = Tail(K.scope) -> <<"scope">>
      [] kw = Tail(K.externalDocs) -> <<"externalDocs">>
      [] kw = Tail(K.link) -> <<"link">>
      [] kw = Tail(K.webhook) -> <<"webhook">>
      [] kw = Tail(K.webhook_body) -> <<"webhook-body">>
      [] kw = Tail(K.webhook_response) -> <<"webhook-response">>
      [] kw = Tail(K.body) -> <<"body">>
      [] kw = Tail(K.secure) -> <<"secure">>
      [] kw = Tail(K.model) -> <<"model">>
      [] kw = Tail(K.field) -> <<"field">>
      [] kw = K.responses[1] -> <<"ok">>
      [] kw = K.responses[2] -> <<"error">>
      [] OTHER -> <<>>

\* C8: a ! line yields an annotation only when its leading keyword is exactly a
\* known directive keyword and the rest of the line fits that keyword's
\* grammar, and then the annotation has the keyword's kind; an unknown keyword
\* (also one that merely begins with a known keyword) or a malformed body
\* yields no annotation.
C8_OnlyKnownKeywords ==
    \A k \in Processed :
        \A a \in Produced(k) :
            /\ written[k].keyword \in KnownKeywords
            /\ written[k].fits
            /\ <<a.Type>> = KindOf(written[k].keyword)

\* the positional attribute keys of each kind
KindKeys(aType) ==
    CASE aType = "api" -> {"version"}
      [] aType = "info" -> {"title", "version", "description"}
      [] aType = "contact" -> {"name", "email", "url"}
      [] aType = "license" -> {"name", "url"}
      [] aType = "server" -> {"url", "description"}
      [] aType = "tag" -> {"name", "description"}
      [] aType = "tos" -> {"url"}
      [] aType = "security" -> {"name", "type", "location", "description", "url"}
      [] aType = "scope" -> {"security", "name", "description"}
      [] aType = "externalDocs" -> {"url", "description"}
      [] aType = "link" -> {"label", "url"}
      [] aType = "webhook" -> {"name", "method", "description"}
      [] aType = "webhook-body" -> {"schema", "description"}
      [] aType = "webhook-response" -> {"status", "schema", "description"}
      [] aType = "route" -> {"method", "path", "operationId", "summary"}
      [] aType \in {"query", "path", "header"} -> {"in", "name", "type", "description"}
      [] aType = "body" -> {"schema", "description"}
      [] aType \in {"ok", "error"} -> {"status", "schema", "description"}
      [] aType = "secure" -> {"names"}
      [] aType = "model" -> {"description"}
      [] aType = "field" -> {"name", "type", "description"}

\* C9: every annotation Parse returns has all positional attribute keys of its
\* kind in Args, with the empty string for an optional group that is absent;
\* every !security annotation has name, type, location, description and url.
C9_KeysPresent ==
    \A i \in 1..Len(annotations) :
        LET a == annotations[i] IN
        /\ KindKeys(a.Type) \subseteq DOMAIN a.Args
        /\ \A key \in DOMAIN a.Args : a.Args[key] \in Seq(Char)
        /\ \A key \in {"description", "summary"} \cap DOMAIN a.Args :
              (\A c \in 1..Len(a.RawLine) : a.RawLine[c] # QUOTE) => a.Args[key] = <<>>
        /\ a.Type = "security" =>
              DOMAIN a.Args = {"name", "type", "location", "description", "url"}

C9_Witness ==
    \E i \in 1..Len(annotations) :
        /\ annotations[i].Type = "security"
        /\ annotations[i].Args["type"] = K.schemes[3]
        /\ annotations[i].Args["location"] = <<>>
        /\ annotations[i].Args["description"] = <<>>
        /\ annotations[i].Args["url"] = <<>>

-----------------------------------------------------------------------------
(* Document assembly: the operation blocks, in declaration order, are      *)
(* placed into Document.Paths, one Operation slot per (path, method).      *)

MaxBlocks == 3

\* the Operation slots of a PathItem
Methods == {"GET", "PUT", "POST", "DELETE", "OPTIONS", "HEAD", "PATCH", "TRACE"}

\* a nil *Operation
NoOperation == [operationId |-> "", block |-> 0]

\* &PathItem{}
EmptyPathItem == [m \in Methods |-> NoOperation]

\* doc.Paths[path], the empty PathItem for a path that is not in the map
PathItemAt(ps, path) == IF path \in DOMAIN ps THEN ps[path] ELSE EmptyPathItem

\* the route directive of an operation block: method, path, operationId
Routes == [method : {"GET", "POST"}, path : {"/a", "/b"}, operationId : {"x", "y", "z"}]

BlockInputs == UNION {[1..n -> Routes] : n \in 1..MaxBlocks}

\* the parser is idle while the document is assembled
LexerIdle ==
    /\ written = <<>>
    /\ text = <<>>
    /\ pc = "done"
    /\ pos = 1
    /\ annotations = <<>>

InitAssembler ==
    /\ blocks \in BlockInputs
    /\ bpos = 1
    /\ paths = <<>>
    /\ diagnostics = <<>>
    /\ LexerIdle
    /\ HttpIdle
    /\ AuditIdle
    /\ UiIdle

\* the operationIds of the Operations in the document
OperationIds(ps) ==
    {ps[p][m].operationId : p \in DOMAIN ps, m \in Methods} \ {""}

\* last-wins: the later declaration replaces the Operation in the slot
KeepLast(ps, path, method, op) ==
    [p \in DOMAIN ps \cup {path} |->
        IF p = path THEN [PathItemAt(ps, p) EXCEPT ![method] = op] ELSE ps[p]]

\* first-wins: the Operation already in the slot stays, the later one is dropped
KeepFirst(ps, path, method, op) == ps

\* the slot of the block's (path, method) is free and its operationId is new
PlaceOperation ==
    /\ bpos <= Len(blocks)
    /\ LET b == blocks[bpos] IN
        /\ PathItemAt(paths, b.path)[b.method] = NoOperation
        /\ b.operationId \notin OperationIds(paths)
        /\ paths' = [p \in DOMAIN paths \cup {b.path} |->
                        IF p = b.path
                        THEN [PathItemAt(paths, p) EXCEPT
                                ![b.method] = [operationId |-> b.operationId, block |-> bpos]]
                        ELSE paths[p]]
    /\ bpos' = bpos + 1
    /\ UNCHANGED <<blocks, diagnostics, lexerVars, httpVars, auditVars, uiVars>>

\* the slot is taken: one error Diagnostic naming both locations, first-wins
ReportDuplicateRoute ==
    /\ bpos <= Len(blocks)
    /\ LET b == blocks[bpos]
           first == PathItemAt(paths, b.path)[b.method]
       IN /\ first # NoOperation
          /\ diagnostics' = Append(diagnostics,
                [severity |-> "error", conflict |-> "path+method",
                 first |-> first.block, later |-> bpos])
          /\ paths' = KeepFirst(paths, b.path, b.method,
                                [operationId |-> b.operationId, block |-> bpos])
    /\ bpos' = bpos + 1
    /\ UNCHANGED <<blocks, lexerVars, httpVars, auditVars, uiVars>>

\* the slot is free but the operationId is taken: the later block is dropped
ReportDuplicateOperationId ==
    /\ bpos <= Len(blocks)
    /\ LET b == blocks[bpos] IN
        /\ PathItemAt(paths, b.path)[b.method] = NoOperation
        /\ b.operationId \in OperationIds(paths)
        /\ diagnostics' = Append(diagnostics,
                [severity |-> "error", conflict |-> "operationId",
                 first |-> (CHOOSE j \in 1..(bpos - 1) :
                                \E p \in DOMAIN paths, m \in Methods :
                                    /\ paths[p][m].block = j
                                    /\ paths[p][m].operationId = b.operationId),
                 later |-> bpos])
    /\ bpos' = bpos + 1
    /\ UNCHANGED <<blocks, paths, lexerVars, httpVars, auditVars, uiVars>>

NextAssembler == PlaceOperation \/ ReportDuplicateRoute \/ ReportDuplicateOperationId

SpecAssembler == InitAssembler /\ [][NextAssembler]_vars

\* the blocks assembled so far
Assembled == 1..(bpos - 1)

\* the Diagnostics reported for block k
DiagnosticsOf(k) == {i \in 1..Len(diagnostics) : diagnostics[i].later = k}

\* the blocks before k that declare k's (path, method) and are in the document
EarlierInSlot(k) ==
    {j \in 1..(k - 1) :
        /\ blocks[j].path = blocks[k].path
        /\ blocks[j].method = blocks[k].method
        /\ DiagnosticsOf(j) = {}}

\* C10: a (path, method) pair holds at most one Operation; when two blocks
\* declare the same pair, exactly one error Diagnostic is reported, the first
\* declared Operation survives, the later one is discarded, and assembly goes
\* on with the remaining blocks.
C10_FirstWins ==
    /\ bpos \in 1..(Len(blocks) + 1)
    /\ \A k \in Assembled :
        LET slot == PathItemAt(paths, blocks[k].path)[blocks[k].method] IN
        /\ Cardinality(EarlierInSlot(k)) <= 1
        /\ EarlierInSlot(k) # {} =>
              /\ Cardinality(DiagnosticsOf(k)) = 1
              /\ \A i \in DiagnosticsOf(k) :
                    /\ diagnostics[i].severity = "error"
                    /\ diagnostics[i].conflict = "path+method"
                    /\ diagnostics[i].first \in EarlierInSlot(k)
              /\ slot.block \in EarlierInSlot(k)
              /\ slot.operationId = blocks[slot.block].operationId
        /\ DiagnosticsOf(k) = {} =>
              slot = [operationId |-> blocks[k].operationId, block |-> k]

C10_Witness ==
    /\ bpos = 4
    /\ blocks[1].path = blocks[2].path /\ blocks[1].method = blocks[2].method
    /\ blocks[1].operationId # blocks[2].operationId
    /\ Len(diagnostics) = 1
    /\ diagnostics[1].first = 1 /\ diagnostics[1].later = 2
    /\ paths[blocks[1].path][blocks[1].method].block = 1
    /\ paths[blocks[3].path][blocks[3].method].block = 3

-----------------------------------------------------------------------------
(* Package yahttp: Chain, the request validation middleware, the spec      *)
(* handler, New / Mount and the CORS middleware.  A handler is the         *)
(* sequence of its layers, outermost first; the last layer is the handler  *)
(* the middlewares wrap.                                                    *)

MaxMiddlewares == 3

\* a Middleware of TestChain: it records its number and, unless it answers
\* the request itself, calls next.ServeHTTP
MiddlewareValues == [id : 1..MaxMiddlewares, callsNext : BOOLEAN]

\* the final http.Handler of TestChain: it records 0
FinalHandler == [id |-> 0, callsNext |-> FALSE]

ChainInputs == UNION {[1..n -> MiddlewareValues] : n \in 0..MaxMiddlewares}

\* wrapping the other way round: m is put next to the wrapped handler
WrapInnermost(m, h) == SubSeq(h, 1, Len(h) - 1) \o <<m, h[Len(h)]>>

\* middlewares[i](final): m becomes the outermost layer of the handler
Wrap(m, h) == <<m>> \o h

\* parameter values as they arrive in the URL, one character per entry
\* (no exponent, hexadecimal, "inf" or "nan" spelling among them)
RawValues ==
    {<<>>, <<"7">>, <<"-", "1">>, <<"1", ".", "5">>, <<"a", "b", "c">>,
     <<"t", "r", "u", "e">>}

\* the segments of the paths, one character per entry
Segment ==
    [users |-> <<"u", "s", "e", "r", "s">>, me |-> <<"m", "e">>, id |-> <<"i", "d">>,
     seven |-> <<"7">>, abc |-> <<"a", "b", "c">>]

\* op.Parameters of the operations of the documents; param.Schema is nil
\* or a Schema with its Type list and Enum
ParameterLists ==
    LET schemas ==
            {[nil |-> TRUE, type |-> <<>>, enum |-> <<>>]} \cup
            [nil : {FALSE},
             type : {<<>>, <<"integer">>, <<"number">>, <<"boolean">>, <<"string">>},
             enum : {<<>>, << <<"7">>, <<"a", "b", "c">> >>}]
        query == [name : {<<"q">>}, in : {"query"}, required : BOOLEAN, schema : schemas]
        id == [name |-> Segment.id, in |-> "path", required |-> TRUE,
               schema |-> [nil |-> FALSE, type |-> <<"integer">>, enum |-> <<>>]]
    IN  {<<>>, <<id>>} \cup {<<q>> : q \in query}
            \cup {<<id, q>> : q \in {x \in query : x.required /\ x.schema.nil}}

\* spec.Paths with the templates /users/{id} and /users/me, a template being
\* the sequence of its segments and a PathItem the function from its
\* non-nil method slots to their Operation
ValidationSpecs ==
    LET usersId == <<[name |-> Segment.users, param |-> FALSE],
                     [name |-> Segment.id, param |-> TRUE]>>
        usersMe == <<[name |-> Segment.users, param |-> FALSE],
                     [name |-> Segment.me, param |-> FALSE]>>
        pathItems == {[m \in {} |-> <<>>]} \cup [{"GET"} -> [parameters : ParameterLists]]
    IN  [{usersId, usersMe} -> pathItems] \cup [{usersId} -> pathItems]

\* the requests: method, r.URL.Path by segment, r.URL.Query()
ValidationRequests ==
    [method : {"GET", "POST"},
     path : {<<Segment.users, Segment.seven>>, <<Segment.users, Segment.abc>>,
             <<Segment.users, Segment.me>>},
     query : {[n \in {} |-> <<>>]} \cup [{<<"q">>} -> RawValues]]

\* matchPath: the matchers whose regex ^...$ (each {name} turned into
\* ([^/]+)) matches the path; the range over the map may meet any of them
\* first
matchPath(pathRegexs, path) ==
    {t \in DOMAIN pathRegexs :
        /\ Len(t) = Len(path)
        /\ \A n \in 1..Len(t) : t[n].param \/ t[n].name = path[n]}

\* validateType: the Message of the error, "" for nil
validateType(value, schemaType) ==
    LET digits(s) == Len(s) > 0 /\ \A n \in 1..Len(s) : s[n] \in Digit
        unsigned == IF Len(value) > 0 /\ value[1] \in {"+", "-"}
                    THEN Tail(value) ELSE value
        mantissa == SelectSeq(unsigned, LAMBDA c : c # ".")
    IN  CASE schemaType = "integer" ->
                 IF digits(unsigned) THEN "" ELSE "must be an integer"
          [] schemaType = "number" ->
                 IF Len(unsigned) - Len(mantissa) <= 1 /\ digits(mantissa)
                 THEN "" ELSE "must be a number"
          [] schemaType = "boolean" ->
                 IF value \in {<<"t", "r", "u", "e">>, <<"f", "a", "l", "s", "e">>,
                               <<"1">>, <<"0">>}
                 THEN "" ELSE "must be a boolean"
          [] OTHER -> ""

\* validateParameter, validateValue and validateEnum
validateParameter(param, value, found) ==
    IF param.required /\ ~found THEN "required parameter is missing"
    ELSE IF ~found \/ param.schema.nil THEN ""
    ELSE IF Len(param.schema.type) = 0 THEN ""
    ELSE IF validateType(value, param.schema.type[1]) # ""
         THEN validateType(value, param.schema.type[1])
    ELSE IF Len(param.schema.enum) = 0 THEN ""
    ELSE IF \E n \in 1..Len(param.schema.enum) : param.schema.enum[n] = value THEN ""
    ELSE "value not in allowed enum values"

\* Validate once matchPath has returned matcher t: getOperation,
\* validateParameters and extractParamValue
Validate(paths_, r, t) ==
    IF r.method \notin DOMAIN paths_[t] THEN <<>>
    ELSE LET parameters == paths_[t][r.method].parameters
             inPath(q) == {n \in 1..Len(t) : t[n].param /\ t[n].name = q.name}
             found(q) == CASE q.in = "path" -> inPath(q) # {}
                           [] q.in = "query" -> q.name \in DOMAIN r.query
                           [] OTHER -> FALSE
             value(q) == CASE q.in = "path" /\ found(q) ->
                                  r.path[CHOOSE n \in inPath(q) : TRUE]
                           [] q.in = "query" /\ found(q) -> r.query[q.name]
                           [] OTHER -> <<>>
             errs == [n \in 1..Len(parameters) |->
                         validateParameter(parameters[n], value(parameters[n]),
                                           found(parameters[n]))]
         IN  SelectSeq(errs, LAMBDA e : e # "")

\* the strings detectFormat looks for, one character per entry
Format ==
    [yaml |-> <<".", "y", "a", "m", "l">>, yml |-> <<".", "y", "m", "l">>,
     json |-> <<".", "j", "s", "o", "n">>,
     applicationYaml |-> <<"a", "p", "p", "l", "i", "c", "a", "t", "i", "o", "n",
                           "/", "y", "a", "m", "l">>,
     textYaml |-> <<"t", "e", "x", "t", "/", "y", "a", "m", "l">>]

\* the requests to the spec handler: r.URL.Path, the Accept header ("" when
\* it is not sent) and r.URL.Query() with the format parameter
SpecRequests ==
    LET openapi == <<"/", "o", "p", "e", "n", "a", "p", "i">>
        html == <<"t", "e", "x", "t", "/", "h", "t", "m", "l", ",">>
        applicationJson == <<"a", "p", "p", "l", "i", "c", "a", "t", "i", "o", "n",
                             "/", "j", "s", "o", "n">>
    IN  [path : {openapi, openapi \o Format.json, openapi \o Format.yaml,
                 openapi \o Format.yml},
         accept : {<<>>, applicationJson, Format.applicationYaml, Format.textYaml,
                   html \o Format.applicationYaml},
         query : {[n \in {} |-> ""]} \cup [{"format"} -> {"yaml", "json", "xml"}]]

\* Plugin.detectFormat
detectFormat(r) ==
    IF HasSuffix(r.path, Format.yaml) \/ HasSuffix(r.path, Format.yml) THEN "yaml"
    ELSE IF HasSuffix(r.path, Format.json) THEN "json"
    ELSE IF Contains(r.accept, Format.applicationYaml) \/ Contains(r.accept, Format.textYaml)
         THEN "yaml"
    ELSE IF "format" \in DOMAIN r.query /\ r.query["format"] = "yaml" THEN "yaml"
    ELSE "json"

\* the opts argument of New: nil, or an Options value
OptionsInputs ==
    {[nil |-> TRUE, SpecPath |-> "", SwaggerUIPath |-> "", EnableValidation |-> FALSE]}
    \cup [nil : {FALSE}, SpecPath : {"", "/openapi.json", "/api/spec"},
          SwaggerUIPath : {"", "/docs", "/ui"}, EnableValidation : BOOLEAN]

\* DefaultOptions()
DefaultOptions ==
    [nil |-> FALSE, SpecPath |-> "/openapi.json", SwaggerUIPath |-> "/docs",
     EnableValidation |-> FALSE]

\* the opts argument of CORS: nil, or a CORSOptions value
CORSOptionsInputs ==
    {[nil |-> TRUE, AllowedOrigins |-> <<>>, AllowedMethods |-> <<>>,
      AllowedHeaders |-> <<>>, ExposedHeaders |-> <<>>, AllowCredentials |-> FALSE,
      MaxAge |-> 0]}
    \cup [nil : {FALSE},
          AllowedOrigins : {<<>>, <<"*">>, <<"http://example.com">>,
                            <<"http://example.com", "*">>,
                            <<"http://other.com", "http://example.com">>},
          AllowedMethods : {<<"GET", "POST">>},
          AllowedHeaders : {<<"Content-Type", "Authorization">>},
          ExposedHeaders : {<<>>, <<"X-Request-ID">>},
          AllowCredentials : BOOLEAN,
          MaxAge : {3600}]

\* newCORSConfig(opts), opts being DefaultCORSOptions() when nil was given;
\* a joined list is kept as the list
newCORSConfig(opts) ==
    IF opts.nil
    THEN [allowedOrigins |-> <<"*">>,
          allowedMethods |-> <<"GET", "POST", "PUT", "PATCH", "DELETE", "OPTIONS", "HEAD">>,
          allowedHeaders |-> <<"Accept", "Authorization", "Content-Type",
                               "X-Requested-With", "X-Request-ID">>,
          exposedHeaders |-> <<"X-Request-ID">>,
          maxAge |-> 86400,
          allowCredentials |-> FALSE]
    ELSE [allowedOrigins |-> IF Len(opts.AllowedOrigins) = 0 THEN <<"*">>
                             ELSE opts.AllowedOrigins,
          allowedMethods |-> opts.AllowedMethods,
          allowedHeaders |-> opts.AllowedHeaders,
          exposedHeaders |-> opts.ExposedHeaders,
          maxAge |-> opts.MaxAge,
          allowCredentials |-> opts.AllowCredentials]

\* an isOriginAllowed that lets every origin through
isOriginAllowedAlways(origin, allowedOrigins) == TRUE

\* isOriginAllowed(origin, allowedOrigins)
isOriginAllowed(origin, allowedOrigins) ==
    /\ origin # ""
    /\ \E n \in 1..Len(allowedOrigins) :
          allowedOrigins[n] = "*" \/ allowedOrigins[n] = origin

\* a getAllowedOrigin that always echoes an allowed origin
getAllowedOriginEcho(c, origin) ==
    IF ~isOriginAllowed(origin, c.allowedOrigins) THEN "" ELSE origin

\* corsConfig.getAllowedOrigin(origin)
getAllowedOrigin(c, origin) ==
    IF ~isOriginAllowed(origin, c.allowedOrigins) THEN ""
    ELSE IF Len(c.allowedOrigins) = 1 /\ c.allowedOrigins[1] = "*" THEN "*"
    ELSE origin

InitHTTP ==
    /\ LexerIdle
    /\ AssemblerIdle
    /\ AuditIdle
    /\ UiIdle
    /\ \/ /\ hpc = "chain"
          /\ middlewares \in ChainInputs
          /\ handler = <<FinalHandler>>
          /\ ci = Len(middlewares)
          /\ depth = 0
          /\ order = <<>>
          /\ spec = <<>>
          /\ options = <<>>
          /\ req = <<>>
          /\ resp = <<>>
          /\ plugin = <<>>
          /\ mux = {}
       \/ /\ hpc = "validate"
          /\ middlewares = <<>>
          /\ handler = <<>>
          /\ ci = 0
          /\ depth = 0
          /\ order = <<>>
          /\ spec \in ValidationSpecs
          /\ options = <<>>
          /\ req \in ValidationRequests
          /\ resp = <<>>
          /\ plugin = <<>>
          /\ mux = {}
       \/ /\ hpc = "spec"
          /\ middlewares = <<>>
          /\ handler = <<>>
          /\ ci = 0
          /\ depth = 0
          /\ order = <<>>
          /\ spec = <<>>
          /\ options = <<>>
          /\ req \in SpecRequests
          /\ resp = <<>>
          /\ plugin = <<>>
          /\ mux = {}
       \/ /\ hpc = "new"
          /\ middlewares = <<>>
          /\ handler = <<>>
          /\ ci = 0
          /\ depth = 0
          /\ order = <<>>
          /\ spec = <<>>
          /\ options \in OptionsInputs
          /\ req = <<>>
          /\ resp = <<>>
          /\ plugin = <<>>
          /\ mux = {}
       \/ /\ hpc = "cors"
          /\ middlewares = <<>>
          /\ handler = <<>>
          /\ ci = 0
          /\ depth = 0
          /\ order = <<>>
          /\ spec = <<>>
          /\ options \in CORSOptionsInputs
          /\ req \in [method : {"GET", "POST", "OPTIONS"},
                       origin : {"", "http://example.com", "http://evil.com"}]
          /\ resp = <<>>
          /\ plugin = <<>>
          /\ mux = {}

\* for i := len(middlewares) - 1; i >= 0; i-- { final = middlewares[i](final) }
ChainWrap ==
    /\ hpc = "chain"
    /\ ci >= 1
    /\ handler' = Wrap(middlewares[ci], handler)
    /\ ci' = ci - 1
    /\ UNCHANGED <<hpc, middlewares, depth, order, spec, options, req, resp,
                   plugin, mux, lexerVars, assemblerVars, auditVars, uiVars>>

\* return final; the handler then receives one request
ChainReturn ==
    /\ hpc = "chain"
    /\ ci < 1
    /\ hpc' = "serve"
    /\ depth' = 1
    /\ UNCHANGED <<middlewares, handler, ci, order, spec, options, req, resp,
                   plugin, mux, lexerVars, assemblerVars, auditVars, uiVars>>

\* a middleware runs: order = append(order, n); next.ServeHTTP(w, r)
ServeMiddleware ==
    /\ hpc = "serve"
    /\ depth < Len(handler)
    /\ order' = Append(order, handler[depth].id)
    /\ depth' = (IF handler[depth].callsNext THEN depth + 1 ELSE depth)
    /\ hpc' = (IF handler[depth].callsNext THEN "serve" ELSE "served")
    /\ UNCHANGED <<middlewares, handler, ci, spec, options, req, resp,
                   plugin, mux, lexerVars, assemblerVars, auditVars, uiVars>>

\* the final handler runs: order = append(order, 0)
ServeFinal ==
    /\ hpc = "serve"
    /\ depth = Len(handler)
    /\ order' = Append(order, handler[depth].id)
    /\ hpc' = "served"
    /\ UNCHANGED <<middlewares, handler, ci, depth, spec, options, req, resp,
                   plugin, mux, lexerVars, assemblerVars, auditVars, uiVars>>

\* the handler RequestValidation returns, with DefaultValidationErrorHandler
\* as errorHandler and a next handler answering 200
RequestValidation ==
    /\ hpc = "validate"
    /\ \E t \in (IF matchPath(spec, req.path) = {} THEN {<<>>}
                 ELSE matchPath(spec, req.path)) :
          LET errs == IF t = <<>> THEN <<>> ELSE Validate(spec, req, t)
          IN  IF Len(errs) > 0
              THEN /\ resp' = [status |-> 400, errs |-> errs]
                   /\ order' = order
              ELSE /\ resp' = [status |-> 200, errs |-> <<>>]
                   /\ order' = Append(order, FinalHandler.id)
    /\ hpc' = "validated"
    /\ UNCHANGED <<middlewares, handler, ci, depth, spec, options, req,
                   plugin, mux, lexerVars, assemblerVars, auditVars, uiVars>>

\* SpecHandler: format := p.detectFormat(r); p.serveSpec(w, format), the
\* document being one that serializes
SpecHandler ==
    /\ hpc = "spec"
    /\ resp' = [status |-> 200,
                contentType |-> IF detectFormat(req) = "yaml"
                                THEN "application/yaml; charset=utf-8"
                                ELSE "application/json; charset=utf-8"]
    /\ hpc' = "specServed"
    /\ UNCHANGED <<middlewares, handler, ci, depth, order, spec, options, req,
                   plugin, mux, lexerVars, assemblerVars, auditVars, uiVars>>

\* New(spec, opts): if opts == nil { opts = DefaultOptions() }
New ==
    /\ hpc = "new"
    /\ plugin' = [spec |-> spec, options |-> IF options.nil THEN DefaultOptions ELSE options]
    /\ hpc' = "created"
    /\ UNCHANGED <<middlewares, handler, ci, depth, order, spec, options, req, resp,
                   mux, lexerVars, assemblerVars, auditVars, uiVars>>

\* p.Mount(mux) on a new ServeMux; a pattern is the path, or the path and "/"
Mount ==
    /\ hpc = "created"
    /\ mux' = (IF plugin.options.SpecPath # ""
               THEN {[pattern |-> <<plugin.options.SpecPath>>, handler |-> "SpecHandler"]}
               ELSE {})
              \cup
              (IF plugin.options.SwaggerUIPath # ""
               THEN {[pattern |-> <<plugin.options.SwaggerUIPath>>,
                      handler |-> "SwaggerUIHandler"],
                     [pattern |-> <<plugin.options.SwaggerUIPath, "/">>,
                      handler |-> "SwaggerUIHandler"]}
               ELSE {})
    /\ hpc' = "mounted"
    /\ UNCHANGED <<middlewares, handler, ci, depth, order, spec, options, req, resp,
                   plugin, lexerVars, assemblerVars, auditVars, uiVars>>

\* the handler CORS(opts) returns, around a next handler answering 200:
\* setCORSHeaders, then setPreflightHeaders and 204 for OPTIONS
CORS ==
    /\ hpc = "cors"
    /\ LET cfg == newCORSConfig(options)
           allowOrigin == getAllowedOrigin(cfg, req.origin)
           none == [h \in {} |-> ""]
           cors == IF allowOrigin = "" THEN none
                   ELSE ("Access-Control-Allow-Origin" :> allowOrigin)
                        @@ (IF cfg.allowCredentials
                            THEN "Access-Control-Allow-Credentials" :> "true" ELSE none)
                        @@ (IF Len(cfg.exposedHeaders) > 0
                            THEN "Access-Control-Expose-Headers" :> cfg.exposedHeaders
                            ELSE none)
           preflight == IF allowOrigin = "" THEN none
                        ELSE ("Access-Control-Allow-Methods" :> cfg.allowedMethods)
                             @@ ("Access-Control-Allow-Headers" :> cfg.allowedHeaders)
                             @@ ("Access-Control-Max-Age" :> cfg.maxAge)
       IN  IF req.method = "OPTIONS"
           THEN /\ resp' = [status |-> 204, header |-> cors @@ preflight]
                /\ order' = order
           ELSE /\ resp' = [status |-> 200, header |-> cors]
                /\ order' = Append(order, FinalHandler.id)
    /\ hpc' = "corsDone"
    /\ UNCHANGED <<middlewares, handler, ci, depth, spec, options, req,
                   plugin, mux, lexerVars, assemblerVars, auditVars, uiVars>>

NextHTTP ==
    \/ ChainWrap \/ ChainReturn \/ ServeMiddleware \/ ServeFinal
    \/ RequestValidation
    \/ SpecHandler
    \/ New \/ Mount
    \/ CORS

SpecHTTP == InitHTTP /\ [][NextHTTP]_vars

\* every middleware of the Chain call hands the request on
AllCallNext == \A k \in 1..Len(middlewares) : middlewares[k].callsNext

\* m1, ..., mn in argument order, then final
ChainOrder ==
    [k \in 1..(Len(middlewares) + 1) |->
        IF k <= Len(middlewares) THEN middlewares[k].id ELSE FinalHandler.id]

\* C11: when every middleware of Chain(m1, ..., mn)(final) calls its next
\* handler, one request runs m1, ..., mn in argument order and then final,
\* each exactly once (what has run so far is always the beginning of that
\* order, and all of it once the request is served); Chain with no
\* middleware returns final unchanged.
C11_ChainOrder ==
    /\ (hpc \in {"serve", "served"} /\ AllCallNext) =>
           /\ Len(order) <= Len(ChainOrder)
           /\ order = SubSeq(ChainOrder, 1, Len(order))
    /\ (hpc = "served" /\ AllCallNext) => order = ChainOrder
    /\ (hpc \in {"serve", "served"} /\ middlewares = <<>>) =>
           handler = <<FinalHandler>>

C11_Witness ==
    /\ hpc = "served"
    /\ AllCallNext
    /\ [k \in 1..Len(middlewares) |-> middlewares[k].id] = <<1, 2, 3>>
    /\ order = <<1, 2, 3, 0>>

\* the operations of the document that the path and the method of the request match
MatchingOperations ==
    {t \in matchPath(spec, req.path) : req.method \in DOMAIN spec[t]}

\* C12: for a request whose path and method match an operation of the spec
\* (one operation, so that it is plain which parameters are declared): if a
\* declared parameter fails validation the wrapped handler is not invoked
\* and the default error handler answers 400; if none fails the wrapped
\* handler is invoked exactly once.
C12_ValidationGuardsHandler ==
    (hpc = "validated" /\ Cardinality(MatchingOperations) = 1) =>
        IF Len(Validate(spec, req, CHOOSE t \in MatchingOperations : TRUE)) > 0
        THEN order = <<>> /\ resp.status = 400
        ELSE order = <<FinalHandler.id>>

\* the format by the stated priority: extension, format parameter, Accept
\* header, JSON
PriorityFormat(r) ==
    IF HasSuffix(r.path, Format.yaml) \/ HasSuffix(r.path, Format.yml) THEN "yaml"
    ELSE IF HasSuffix(r.path, Format.json) THEN "json"
    ELSE IF "format" \in DOMAIN r.query /\ r.query["format"] \in {"yaml", "json"}
         THEN r.query["format"]
    ELSE IF Contains(r.accept, Format.applicationYaml) \/ Contains(r.accept, Format.textYaml)
         THEN "yaml"
    ELSE "json"

\* C13: the spec handler takes the format from the URL extension first, then
\* from the format query parameter, then from the Accept header, and serves
\* JSON when none of them decides; a higher-priority source overrides a
\* lower one.
C13_FormatPriority ==
    hpc = "specServed" =>
        resp.contentType = (IF PriorityFormat(req) = "yaml"
                            THEN "application/yaml; charset=utf-8"
                            ELSE "application/json; charset=utf-8")

\* C14: a Plugin created by New with Options that leave SpecPath or
\* SwaggerUIPath unset (nil Options, or a non-nil Options with the field
\* empty) mounts the spec handler at /openapi.json and Swagger UI at /docs.
C14_DefaultPaths ==
    hpc = "mounted" =>
        /\ (options.nil \/ options.SpecPath = "") =>
               [pattern |-> <<"/openapi.json">>, handler |-> "SpecHandler"] \in mux
        /\ (options.nil \/ options.SwaggerUIPath = "") =>
               [pattern |-> <<"/docs">>, handler |-> "SwaggerUIHandler"] \in mux

\* the request origin is non-empty and the list names it or contains "*"
OriginIn(list) ==
    /\ req.origin # ""
    /\ \E n \in 1..Len(list) : list[n] = "*" \/ list[n] = req.origin

\* what the claim says of a non-OPTIONS request, for a list of allowed origins
SimpleRequestRule(list) ==
    (hpc = "corsDone" /\ req.method # "OPTIONS") =>
        /\ IF OriginIn(list)
           THEN /\ "Access-Control-Allow-Origin" \in DOMAIN resp.header
                /\ resp.header["Access-Control-Allow-Origin"] =
                       (IF list = <<"*">> THEN "*" ELSE req.origin)
           ELSE DOMAIN resp.header = {}
        /\ order = <<FinalHandler.id>>

\* the list the middleware works with: ["*"] for nil options and for an
\* empty AllowedOrigins
EffectiveOrigins ==
    IF options.nil \/ options.AllowedOrigins = <<>> THEN <<"*">>
    ELSE options.AllowedOrigins

\* C15 as stated: the list is the AllowedOrigins of the options (the default
\* options for nil)
C15_AllowOriginAsListed ==
    SimpleRequestRule(IF options.nil THEN <<"*">> ELSE options.AllowedOrigins)

\* C15: for every non-OPTIONS request through the CORS middleware, with an
\* empty AllowedOrigins standing for ["*"]: if the Origin header is
\* non-empty and allowed (listed, or the list contains "*") the response
\* carries Access-Control-Allow-Origin equal to the request origin, or "*"
\* when the list is exactly ["*"]; otherwise no Access-Control-* header is
\* set; in both cases the next handler is invoked.
C15_AllowOrigin == SimpleRequestRule(EffectiveOrigins)

C15_Witness ==
    /\ hpc = "corsDone"
    /\ req.method = "GET"
    /\ req.origin = "http://example.com"
    /\ ~options.nil
    /\ options.AllowedOrigins = <<"http://other.com", "http://example.com">>
    /\ resp.header["Access-Control-Allow-Origin"] = "http://example.com"
    /\ order = <<0>>

\* the headers setPreflightHeaders sets
PreflightHeaders ==
    {"Access-Control-Allow-Methods", "Access-Control-Allow-Headers",
     "Access-Control-Max-Age"}

\* C16: every OPTIONS request reaching the CORS middleware is answered with
\* status 204 and the next handler is never invoked, whether or not the
\* origin is allowed; Access-Control-Allow-Methods, -Allow-Headers and
\* -Max-Age are set only when the origin is allowed (and then all three).
C16_Preflight ==
    (hpc = "corsDone" /\ req.method = "OPTIONS") =>
        /\ resp.status = 204
        /\ order = <<>>
        /\ IF OriginIn(EffectiveOrigins)
           THEN PreflightHeaders \subseteq DOMAIN resp.header
           ELSE PreflightHeaders \cap DOMAIN resp.header = {}

C16_Witness ==
    /\ hpc = "corsDone"
    /\ req.method = "OPTIONS"
    /\ req.origin = "http://example.com"
    /\ ~options.nil
    /\ options.AllowedOrigins = <<"http://example.com">>
    /\ resp.status = 204
    /\ resp.header["Access-Control-Max-Age"] = 3600
    /\ order = <<>>

-----------------------------------------------------------------------------
(* Package audit: Auditor.Audit with its endpoint counters, and the        *)
(* UnprotectedWriteRule.  A PathItem is the function from its non-nil      *)
(* method slots to their Operation.                                        *)

MaxOperations == 2

\* the documents: doc.Security and doc.Paths, the PathItem of /users with up
\* to MaxOperations operations
AuditDocuments ==
    LET operations == [Security : {<<>>, <<"bearer">>}]
        users == UNION {[M -> operations] :
                           M \in {S \in SUBSET Methods : Cardinality(S) <= MaxOperations}}
        public == [{"GET"} -> operations] \cup [{"POST", "HEAD"} -> operations]
        paths_ == {[n \in {} |-> <<>>]} \cup [{"/users"} -> users]
                    \cup {("/users" :> u) @@ ("/public" :> q) : u \in users, q \in public}
    IN  [Security : {<<>>, <<"apiKey">>}, Paths : paths_]

\* getOperations(pathItem)
getOperations(pathItem) ==
    LET entries == SelectSeq(<<"GET", "POST", "PUT", "DELETE", "PATCH">>,
                             LAMBDA m : m \in DOMAIN pathItem)
    IN  [n \in 1..Len(entries) |-> [method |-> entries[n], op |-> pathItem[entries[n]]]]

\* the security of the operation alone
getEndpointSecurityOwn(op, globalSecurity, hasGlobalSecurity) == op.Security

\* Auditor.getEndpointSecurity
getEndpointSecurity(op, globalSecurity, hasGlobalSecurity) ==
    IF Len(op.Security) > 0 THEN op.Security
    ELSE IF hasGlobalSecurity THEN globalSecurity
    ELSE <<>>

\* the security of the operation alone
hasEndpointSecurityOwn(op, hasGlobalSecurity) == Len(op.Security) > 0

\* hasEndpointSecurity(op, hasGlobalSecurity)
hasEndpointSecurity(op, hasGlobalSecurity) == Len(op.Security) > 0 \/ hasGlobalSecurity

InitAudit ==
    /\ LexerIdle
    /\ AssemblerIdle
    /\ HttpIdle
    /\ UiIdle
    /\ apc = "analyze"
    /\ doc \in AuditDocuments
    /\ visited = {}
    /\ result = [TotalEndpoints |-> 0, ProtectedEndpoints |-> 0, UnprotectedEndpoints |-> 0]
    /\ findings = <<>>

\* analyzeEndpoints: the body of the range over doc.Paths for one path, the
\* map yielding its paths in any order; after the last path the rules run
analyzeEndpoints ==
    /\ apc = "analyze"
    /\ IF visited = DOMAIN doc.Paths
       THEN /\ apc' = "check"
            /\ visited' = {}
            /\ result' = result
       ELSE \E path \in DOMAIN doc.Paths \ visited :
               LET entries == getOperations(doc.Paths[path])
                   protected == {n \in 1..Len(entries) :
                                    Len(getEndpointSecurity(entries[n].op, doc.Security,
                                                            Len(doc.Security) > 0)) > 0}
               IN  /\ result' = [TotalEndpoints |-> result.TotalEndpoints + Len(entries),
                                 ProtectedEndpoints |->
                                     result.ProtectedEndpoints + Cardinality(protected),
                                 UnprotectedEndpoints |->
                                     result.UnprotectedEndpoints + Len(entries)
                                         - Cardinality(protected)]
                   /\ visited' = visited \cup {path}
                   /\ apc' = apc
    /\ UNCHANGED <<doc, findings, lexerVars, assemblerVars, httpVars, uiVars>>

\* UnprotectedWriteRule.Check: the body of the range over doc.Paths for one
\* path; return findings after the last
Check ==
    /\ apc = "check"
    /\ IF visited = DOMAIN doc.Paths
       THEN /\ apc' = "done"
            /\ UNCHANGED <<visited, findings>>
       ELSE \E path \in DOMAIN doc.Paths \ visited :
               LET writes == SelectSeq(getOperations(doc.Paths[path]),
                                 LAMBDA e : /\ e.method \in {"POST", "PUT", "DELETE", "PATCH"}
                                            /\ ~hasEndpointSecurity(e.op, Len(doc.Security) > 0))
               IN  /\ findings' = findings \o
                          [n \in 1..Len(writes) |->
                              [RuleID |-> "UNPROTECTED_WRITE", Severity |-> "WARNING",
                               Location |-> <<writes[n].method, path>>]]
                   /\ visited' = visited \cup {path}
                   /\ apc' = apc
    /\ UNCHANGED <<doc, result, lexerVars, assemblerVars, httpVars, uiVars>>

NextAudit == analyzeEndpoints \/ Check

SpecAudit == InitAudit /\ [][NextAudit]_vars

\* the endpoints the audit goes through: method and path of each entry of
\* getOperations
Endpoints ==
    UNION {{<<getOperations(doc.Paths[q])[n].method, q>> :
               n \in 1..Len(getOperations(doc.Paths[q]))} : q \in DOMAIN doc.Paths}

\* the endpoints whose operation has a non-empty security list, or all of
\* them when the document has a non-empty global security list
ProtectedEndpoints ==
    {e \in Endpoints : Len(doc.Paths[e[2]][e[1]].Security) > 0 \/ Len(doc.Security) > 0}

\* C17: Audit returns TotalEndpoints = ProtectedEndpoints +
\* UnprotectedEndpoints (at every point of the count), an endpoint being
\* counted as protected iff its operation has a non-empty security list or
\* the document has a non-empty global security list.
C17_CountsAddUp ==
    /\ apc # "idle" =>
           result.TotalEndpoints = result.ProtectedEndpoints + result.UnprotectedEndpoints
    /\ apc \in {"check", "done"} =>
           /\ result.ProtectedEndpoints = Cardinality(ProtectedEndpoints)
           /\ result.UnprotectedEndpoints = Cardinality(Endpoints \ ProtectedEndpoints)

C17_Witness ==
    /\ apc = "done"
    /\ doc.Security = <<>>
    /\ result = [TotalEndpoints |-> 3, ProtectedEndpoints |-> 1, UnprotectedEndpoints |-> 2]

\* the non-nil operations of the document, over every method slot
Operations ==
    UNION {{<<m, q>> : m \in DOMAIN doc.Paths[q]} : q \in DOMAIN doc.Paths}

\* C18: TotalEndpoints equals the number of non-nil operations over all
\* paths of the document, counting every method slot of PathItem (GET, PUT,
\* POST, DELETE, OPTIONS, HEAD, PATCH, TRACE).
C18_EveryMethodSlot ==
    apc \in {"check", "done"} => result.TotalEndpoints = Cardinality(Operations)

\* the POST, PUT, DELETE and PATCH operations without operation-level
\* security, in a document without global security
UnprotectedWrites ==
    {e \in Operations :
        /\ e[1] \in {"POST", "PUT", "DELETE", "PATCH"}
        /\ Len(doc.Paths[e[2]][e[1]].Security) = 0
        /\ Len(doc.Security) = 0}

\* C19: UnprotectedWriteRule.Check returns exactly one WARNING finding for
\* each POST, PUT, DELETE or PATCH operation without operation-level
\* security in a document without global security, and no other finding.
C19_UnprotectedWrites ==
    apc = "done" =>
        /\ \A n \in 1..Len(findings) :
              /\ findings[n].Severity = "WARNING"
              /\ findings[n].Location \in UnprotectedWrites
        /\ \A e \in UnprotectedWrites :
              Cardinality({n \in 1..Len(findings) : findings[n].Location = e}) = 1

C19_Witness ==
    /\ apc = "done"
    /\ doc.Security = <<>>
    /\ DOMAIN doc.Paths = {"/users", "/public"}
    /\ DOMAIN doc.Paths["/users"] = {"POST", "DELETE"}
    /\ "GET" \in DOMAIN doc.Paths["/public"]
    /\ Len(findings) = 2

-----------------------------------------------------------------------------
(* Package swaggerui: patchOpenAPI32To31.  The bytes of a document are a   *)
(* sequence of one-character strings.                                      *)

MaxCalls == 2

\* the documents: YAML or JSON, the openapi version, the quote around it in
\* YAML, the white space before it, and whether the document carries an
\* example object that has an openapi member of its own; YAML needs white
\* space after the colon, JSON the double quote
Documents ==
    {d \in
    [syntax : {"yaml", "json"},
     version : {<<"3", ".", "2", ".", "0">>, <<"3", ".", "2", ".", "1">>, <<"3", ".", "1", ".", "0">>, <<"3", ".", "0", ".", "3">>},
     quote : {<<>>, <<APOS>>, <<QUOTE>>},
     gap : {<<>>, <<SP>>, <<SP, SP>>},
     example : BOOLEAN] :
        IF d.syntax = "yaml" THEN d.gap # <<>> ELSE d.quote = <<QUOTE>>}

\* the bytes of a document
RenderDocument(d) ==
    IF d.syntax = "yaml"
    THEN <<"o", "p", "e", "n", "a", "p", "i", ":">> \o d.gap \o d.quote \o d.version \o d.quote
         \o <<"\n", "i", "n", "f", "o", ":", "\n", " ", " ", "t", "i", "t", "l", "e", ":", " ", "T", "e", "s", "t">>
         \o (IF d.example THEN <<"\n", " ", " ", "x", "-", "e", "x", "a", "m", "p", "l", "e", ":", " ", "{", QUOTE, "o", "p", "e", "n", "a", "p", "i", QUOTE, ":", " ", QUOTE, "3", ".", "2", ".", "0", QUOTE, "}">> ELSE <<>>)
    ELSE <<"{", QUOTE, "o", "p", "e", "n", "a", "p", "i", QUOTE, ":">> \o d.gap \o <<QUOTE>> \o d.version \o <<QUOTE>>
         \o <<",", " ", QUOTE, "i", "n", "f", "o", QUOTE, ":", " ", "{", QUOTE, "t", "i", "t", "l", "e", QUOTE, ":", " ", QUOTE, "T", "e", "s", "t", QUOTE>>
         \o (IF d.example THEN <<",", " ", QUOTE, "x", "-", "e", "x", "a", "m", "p", "l", "e", QUOTE, ":", " ", "{", QUOTE, "o", "p", "e", "n", "a", "p", "i", QUOTE, ":", " ", QUOTE, "3", ".", "2", ".", "0", QUOTE, "}">> ELSE <<>>)
         \o <<"}">>

\* (?m)^openapi:\s*['"]?(3\.2\.\d+)['"]?
yamlPattern ==
    <<[Item EXCEPT !.op = "mbol"], Lit(<<"o", "p", "e", "n", "a", "p", "i", ":">>), Star(Space \cup {"\n"}),
      Opt(<<Alt(<< <<Lit(<<APOS>>)>>, <<Lit(<<QUOTE>>)>> >>)>>),
      Grp(1, <<Lit(<<"3", ".", "2", ".">>), Plus(Digit)>>),
      Opt(<<Alt(<< <<Lit(<<APOS>>)>>, <<Lit(<<QUOTE>>)>> >>)>>)>>

\* "openapi"\s*:\s*"(3\.2\.\d+)"
jsonPattern ==
    <<Lit(<<QUOTE, "o", "p", "e", "n", "a", "p", "i", QUOTE>>), Star(Space \cup {"\n"}), Lit(<<":">>), Star(Space \cup {"\n"}),
      Lit(<<QUOTE>>), Grp(1, <<Lit(<<"3", ".", "2", ".">>), Plus(Digit)>>), Lit(<<QUOTE>>)>>

RECURSIVE ReplaceAllString(_, _, _, _)
\* re.ReplaceAllString(src, repl) from position i of src on, repl holding no
\* $ reference: every match, leftmost first and not overlapping, is replaced
ReplaceAllString(re, src, i, repl) ==
    LET r == Find(re, src, i)
    IN  IF ~r.ok THEN SubSeq(src, i, Len(src))
        ELSE SubSeq(src, i, r.from - 1) \o repl \o ReplaceAllString(re, src, r.end, repl)

\* patchOpenAPI32To31(data)
patchOpenAPI32To31(content) ==
    LET yaml == IF Find(yamlPattern, content, 1).ok
                THEN ReplaceAllString(yamlPattern, content, 1, <<"o", "p", "e", "n", "a", "p", "i", ":", " ", "3", ".", "1", ".", "0">>)
                ELSE content
    IN  IF Find(jsonPattern, yaml, 1).ok
        THEN ReplaceAllString(jsonPattern, yaml, 1, <<QUOTE, "o", "p", "e", "n", "a", "p", "i", QUOTE, ":", " ", QUOTE, "3", ".", "1", ".", "0", QUOTE>>)
        ELSE yaml

MaxSetCalls == 3

\* the bytes a caller, a file or a remote server hands over: a JSON document
\* of version 3.2.0 and a YAML document of version 3.0.3
SpecBytes ==
    {RenderDocument([syntax |-> "json", version |-> <<"3", ".", "2", ".", "0">>,
                     quote |-> <<QUOTE>>, gap |-> <<SP>>, example |-> FALSE]),
     RenderDocument([syntax |-> "yaml", version |-> <<"3", ".", "0", ".", "3">>,
                     quote |-> <<>>, gap |-> <<SP>>, example |-> FALSE])}

\* either a document is patched, or a server made by NewServer or
\* NewEditorServer receives calls (Server has no hasSpec field: FALSE throughout)
InitUI ==
    /\ LexerIdle
    /\ AssemblerIdle
    /\ HttpIdle
    /\ AuditIdle
    /\ previous = <<>>
    /\ calls = 0
    /\ err = ""
    /\ chosen = <<>>
    /\ served = <<>>
    /\ ncalls = 0
    /\ \/ /\ document \in Documents
          /\ data = RenderDocument(document)
          /\ server = <<>>
       \/ /\ document = <<>>
          /\ data = <<>>
          /\ server \in [kind : {"Server", "EditorServer"}, specData : {<<>>},
                         specURL : {""}, isRemoteURL : {FALSE}, hasSpec : {FALSE}]

\* data = patchOpenAPI32To31(data)
Patch ==
    /\ calls < MaxCalls
    /\ document # <<>>
    /\ data' = patchOpenAPI32To31(data)
    /\ previous' = data
    /\ calls' = calls + 1
    /\ UNCHANGED <<document, server, err, chosen, served, ncalls,
                   lexerVars, assemblerVars, httpVars, auditVars>>

\* SetSpecFromFile(path): os.ReadFile gives the bytes of the file or fails
SetSpecFromFile ==
    /\ server # <<>>
    /\ ncalls < MaxSetCalls
    /\ \E read \in [ok : {TRUE}, data : SpecBytes] \cup [ok : {FALSE}, data : {<<>>}] :
          IF read.ok
          THEN /\ server' = [server EXCEPT !.specData = read.data, !.isRemoteURL = FALSE,
                                           !.hasSpec = (server.kind = "EditorServer")]
               /\ chosen' = [source |-> "local", data |-> read.data, url |-> ""]
               /\ err' = ""
          ELSE /\ err' = "failed to read spec file"
               /\ UNCHANGED <<server, chosen>>
    /\ ncalls' = ncalls + 1
    /\ UNCHANGED <<document, data, previous, calls, served,
                   lexerVars, assemblerVars, httpVars, auditVars>>

\* a SetSpecFromURL that stores the URL only
SetSpecFromURLOnly ==
    /\ server # <<>>
    /\ ncalls < MaxSetCalls
    /\ \E url \in {"https://example.com/spec.yaml", "https://example.com/other.json"} :
          /\ server' = [server EXCEPT !.specURL = url,
                                      !.hasSpec = (server.kind = "EditorServer")]
          /\ chosen' = [source |-> "remote", data |-> <<>>, url |-> url]
    /\ err' = ""
    /\ ncalls' = ncalls + 1
    /\ UNCHANGED <<document, data, previous, calls, served,
                   lexerVars, assemblerVars, httpVars, auditVars>>

\* SetSpecFromURL(url)
SetSpecFromURL ==
    /\ server # <<>>
    /\ ncalls < MaxSetCalls
    /\ \E url \in {"https://example.com/spec.yaml", "https://example.com/other.json"} :
          /\ server' = [server EXCEPT !.specURL = url, !.isRemoteURL = TRUE,
                                      !.hasSpec = (server.kind = "EditorServer")]
          /\ chosen' = [source |-> "remote", data |-> <<>>, url |-> url]
    /\ err' = ""
    /\ ncalls' = ncalls + 1
    /\ UNCHANGED <<document, data, previous, calls, served,
                   lexerVars, assemblerVars, httpVars, auditVars>>

\* SetSpecFromData(data)
SetSpecFromData ==
    /\ server # <<>>
    /\ ncalls < MaxSetCalls
    /\ \E bytes \in SpecBytes :
          /\ server' = [server EXCEPT !.specData = bytes, !.isRemoteURL = FALSE,
                                      !.hasSpec = (server.kind = "EditorServer")]
          /\ chosen' = [source |-> "local", data |-> bytes, url |-> ""]
    /\ err' = ""
    /\ ncalls' = ncalls + 1
    /\ UNCHANGED <<document, data, previous, calls, served,
                   lexerVars, assemblerVars, httpVars, auditVars>>

\* a request to /spec: Serve registers handleSpec (EditorServer: only with
\* hasSpec); handleSpec proxies specURL, the fetch giving some bytes or
\* failing, or takes specData; Server patches the version; the answer notes
\* after how many SetSpecFrom... calls it was given
handleSpec ==
    /\ server # <<>>
    /\ \E fetch \in [ok : {TRUE}, data : SpecBytes] \cup [ok : {FALSE}, data : {<<>>}] :
          LET specData == IF server.isRemoteURL THEN fetch.data ELSE server.specData
              body == IF server.kind = "Server" THEN patchOpenAPI32To31(specData)
                      ELSE specData
              yaml == /\ Len(body) > 0
                      /\ \/ body[1] \in {"-", "#"}
                         \/ HasPrefix(body, <<"o", "p", "e", "n", "a", "p", "i", ":">>)
                         \/ HasPrefix(body, <<"s", "w", "a", "g", "g", "e", "r", ":">>)
              answer == [after |-> ncalls, status |-> 200,
                         source |-> IF server.isRemoteURL THEN "remote" ELSE "local",
                         url |-> IF server.isRemoteURL THEN server.specURL ELSE "",
                         from |-> specData, body |-> body,
                         contentType |-> IF yaml THEN "application/yaml"
                                         ELSE "application/json"]
          IN  served' =
                  IF server.kind = "EditorServer" /\ ~server.hasSpec
                  THEN [answer EXCEPT !.status = 404, !.source = "", !.from = <<>>,
                                      !.body = <<>>, !.contentType = ""]
                  ELSE IF server.isRemoteURL /\ ~fetch.ok
                  THEN [answer EXCEPT !.status = 500, !.body = <<>>, !.contentType = ""]
                  ELSE answer
    /\ UNCHANGED <<document, data, previous, calls, server, err, chosen, ncalls,
                   lexerVars, assemblerVars, httpVars, auditVars>>

NextUI ==
    \/ Patch
    \/ SetSpecFromFile \/ SetSpecFromURL \/ SetSpecFromData
    \/ handleSpec

SpecUI == InitUI /\ [][NextUI]_vars

\* the document with its openapi version set to 3.1.0 the way the patch
\* writes it
Patched(d) ==
    [d EXCEPT !.version = <<"3", ".", "1", ".", "0">>,
              !.gap = <<SP>>,
              !.quote = IF d.syntax = "yaml" THEN <<>> ELSE d.quote]

\* C20: patchOpenAPI32To31 rewrites the openapi version 3.2.x of a document
\* to 3.1.0 (YAML unquoted or quoted, and JSON), returns every document whose
\* openapi version is not 3.2.x byte-for-byte unchanged, and applying it
\* twice gives the same result as applying it once.
C20_PatchVersion ==
    calls >= 1 =>
        /\ data = (IF SubSeq(document.version, 1, 4) = <<"3", ".", "2", ".">>
                   THEN RenderDocument(Patched(document))
                   ELSE RenderDocument(document))
        /\ calls >= 2 => data = previous

\* an answer given after the calls made so far comes from the source the
\* most recent successful call chose, and the fields name that source
C21_Inv ==
    (server # <<>> /\ chosen # <<>>) =>
        /\ server.isRemoteURL = (chosen.source = "remote")
        /\ chosen.source = "remote" => server.specURL = chosen.url
        /\ chosen.source = "local" => server.specData = chosen.data
        /\ (served # <<>> /\ served.after = ncalls) =>
               /\ served.source = chosen.source
               /\ served.url = chosen.url
               /\ (chosen.source = "local" => served.status = 200 /\ served.from = chosen.data)

\* a call that returns an error changes no field; hasSpec stays true
C21_Step ==
    server # <<>> =>
        /\ (ncalls' = ncalls + 1 /\ err' # "") => server' = server
        /\ server.hasSpec => server'.hasSpec

\* C21: after any sequence of SetSpecFromData, SetSpecFromURL and
\* SetSpecFromFile calls on a Server or EditorServer the spec endpoint serves
\* the source chosen by the most recent successful call (local bytes or
\* proxied URL); a SetSpecFromFile call that fails to read the file returns
\* an error and leaves specData, specURL, isRemoteURL and hasSpec unchanged;
\* hasSpec of an EditorServer never returns to false once set.
C21_LastSuccessfulCall == [](C21_Inv) /\ [][C21_Step]_vars

C21_Witness ==
    /\ server # <<>>
    /\ server.kind = "EditorServer"
    /\ server.specData # <<>>
    /\ chosen # <<>>
    /\ chosen.source = "remote"
    /\ err # ""
    /\ ncalls = MaxSetCalls
    /\ served # <<>>
    /\ served.after = ncalls
    /\ served.status = 200
    /\ served.url = "https://example.com/spec.yaml"

====
